---- MODULE Spec2Model ----
(***************************************************************************)
(* Model of src/BigInt.cpp: the arbitrary-precision signed integer BigInt. *)
(* A BigInt is a record [sign, num]: num is the limb sequence, least       *)
(* significant limb first (num[1] is the C++ num[0]), sign is TRUE for a   *)
(* non-negative value.  The source keeps 18 decimal digits per limb        *)
(* (base = 10^18); the model keeps LimbDigits digits per limb and derives  *)
(* every other width from it, so that the limbs stay inside the integers   *)
(* of the model checker.                                                   *)
(***************************************************************************)
EXTENDS Integers, Sequences, FiniteSets, TLC

\* ------------------------------------------------------------- bounds
\* Decimal digits per limb (18 in the source: base = 10^18, setw(18)).
LimbDigits == 2
\* Largest number of decimal digits a value of the register machine holds.
MaxDigits == 9
\* Operator applications per run of the register machine.
MaxSteps == 2
\* Longest input string of the string specification.
MaxStrLen == 5
\* Karatsuba crossover (1024 limbs in the source, scaled with the operands).
KARATSUBA_THRESHOLD == 3
\* Longest operand, in limbs, of the multiplication specification.
MaxMulLimbs == 4

\* ------------------------------------------------------------- machine integers
base == 10 ^ LimbDigits

MaxLimbs == MaxDigits \div LimbDigits

\* int64_t scaled with base: 2^63 - 1 = 9.22.. * 10^18.
INT64_MAX == (922 * base) \div 100

INT64_MIN == (0 - INT64_MAX) - 1

Max(p, q) == IF p >= q THEN p ELSE q

Min(p, q) == IF p <= q THEN p ELSE q

\* F applied to the value of e (e is evaluated once, before F).
Bind(e, F(_)) == CHOOSE res \in {F(val) : val \in {e}} : TRUE

\* C++ integer division truncates toward zero (the divisor is positive here).
CDiv(p, q) == IF p >= 0 THEN p \div q ELSE 0 - ((0 - p) \div q)

CMod(p, q) == p - q * CDiv(p, q)

\* ------------------------------------------------------------- the value type
MkBig(s, n) == [sign |-> s, num |-> n]

\* BigInt(): the default constructor.
BigIntDefault == MkBig(TRUE, <<0>>)

is_zero(v) == Len(v.num) = 1 /\ v.num[1] = 0

RECURSIVE StripZeros(_)
StripZeros(n) ==
  IF Len(n) > 1 /\ n[Len(n)] = 0 THEN StripZeros(SubSeq(n, 1, Len(n) - 1)) ELSE n

normalize(v) ==
  LET n == StripZeros(v.num)
  IN  MkBig(IF Len(n) = 1 /\ n[1] = 0 THEN TRUE ELSE v.sign, n)

set_sign(v, s) == MkBig(s, v.num)

abs(v) == set_sign(v, TRUE)

inv_abs(v) == set_sign(v, FALSE)

\* ------------------------------------------------------------- magnitude add / sub
RECURSIVE Rep(_, _)
Rep(c, k) == IF k <= 0 THEN <<>> ELSE Append(Rep(c, k - 1), c)

PadZeros(n, len) == n \o Rep(0, len - Len(n))

RECURSIVE addLoop(_, _, _, _)
addLoop(n1, n2, i, carry) ==
  IF i > Len(n1)
  THEN IF carry # 0 THEN Append(n1, carry) ELSE n1
  ELSE LET sum == n1[i] + (IF i <= Len(n2) THEN n2[i] ELSE 0) + carry
       IN  addLoop([n1 EXCEPT ![i] = CMod(sum, base)], n2, i + 1, CDiv(sum, base))

addAbsolute(v, other) ==
  LET n == Max(Len(v.num), Len(other.num))
  IN  MkBig(v.sign, addLoop(PadZeros(v.num, n), other.num, 1, 0))

RECURSIVE subLoop(_, _, _, _)
subLoop(n1, n2, i, borrow) ==
  IF i > Len(n1)
  THEN n1
  ELSE LET diff == (n1[i] - (IF i <= Len(n2) THEN n2[i] ELSE 0)) - borrow
       IN  IF diff < 0
           THEN subLoop([n1 EXCEPT ![i] = diff + base], n2, i + 1, 1)
           ELSE subLoop([n1 EXCEPT ![i] = diff], n2, i + 1, 0)

subAbsolute(v, o) == MkBig(v.sign, subLoop(v.num, o.num, 1, 0))

\* ------------------------------------------------------------- comparison
\* The shared tail of the comparison operators: both signs non-negative.
\* Result: 1 (larger), -1 (smaller), 0 (every limb equal).
RECURSIVE LimbCompare(_, _, _)
LimbCompare(n1, n2, i) ==
  IF i < 1 THEN 0
  ELSE IF n1[i] > n2[i] THEN 1
  ELSE IF n1[i] < n2[i] THEN 0 - 1
  ELSE LimbCompare(n1, n2, i - 1)

MagCompare(n1, n2) ==
  IF Len(n1) > Len(n2) THEN 1
  ELSE IF Len(n1) < Len(n2) THEN 0 - 1
  ELSE LimbCompare(n1, n2, Len(n1))

Greater(v, other) ==
  IF other.sign /\ ~v.sign THEN FALSE
  ELSE IF ~other.sign /\ v.sign THEN TRUE
  ELSE IF ~v.sign THEN MagCompare(other.num, v.num) = 1
  ELSE MagCompare(v.num, other.num) = 1

GreaterEq(v, other) ==
  IF other.sign /\ ~v.sign THEN FALSE
  ELSE IF ~other.sign /\ v.sign THEN TRUE
  ELSE IF ~v.sign THEN MagCompare(other.num, v.num) >= 0
  ELSE MagCompare(v.num, other.num) >= 0

Less(v, other) ==
  IF other.sign /\ ~v.sign THEN TRUE
  ELSE IF ~other.sign /\ v.sign THEN FALSE
  ELSE IF ~v.sign THEN MagCompare(other.num, v.num) = 0 - 1
  ELSE MagCompare(v.num, other.num) = 0 - 1

LessEq(v, other) ==
  IF other.sign /\ ~v.sign THEN TRUE
  ELSE IF ~other.sign /\ v.sign THEN FALSE
  ELSE IF ~v.sign THEN MagCompare(other.num, v.num) <= 0
  ELSE MagCompare(v.num, other.num) <= 0

Equal(v, other) ==
  IF other.sign /\ ~v.sign THEN FALSE
  ELSE IF ~other.sign /\ v.sign THEN FALSE
  ELSE IF ~v.sign THEN MagCompare(other.num, v.num) = 0
  ELSE MagCompare(v.num, other.num) = 0

NotEqual(v, other) == ~Equal(v, other)

\* ------------------------------------------------------------- constructors
\* BigInt(int64_t x).  For x = INT64_MIN the statement x = -x overflows, which
\* is undefined: the builds produce either no limb at all (the negation wraps
\* and both the x == 0 test and the loop are skipped) or the single limb
\* x % base (the loop is entered once because -x is assumed positive).
RECURSIVE PeelLimbs(_, _)
PeelLimbs(xv, n) ==
  IF xv > 0 THEN PeelLimbs(CDiv(xv, base), Append(n, CMod(xv, base))) ELSE n

BigIntFromInt(xv) ==
  IF xv = INT64_MIN
  THEN {MkBig(FALSE, <<>>), MkBig(FALSE, <<CMod(xv, base)>>)}
  ELSE LET s == ~(xv < 0)
           m == IF xv < 0 THEN 0 - xv ELSE xv
       IN  {MkBig(s, IF m = 0 THEN <<0>> ELSE PeelLimbs(m, <<>>))}

\* The constructor on a value whose negation is defined.
Big(xv) == CHOOSE v \in BigIntFromInt(xv) : TRUE

\* Strings are sequences of character codes.
ChMinus == 45

Ch0 == 48

Ch9 == 57

IsDigitCh(c) == ~(c > Ch9 \/ c < Ch0)

valid_string(s) ==
  /\ ~(Len(s) = 0 \/ (s[1] # ChMinus /\ (s[1] > Ch9 \/ s[1] < Ch0)))
  /\ \A i \in 2..Len(s) : ~(s[i] > Ch9 \/ s[i] < Ch0)

\* The inner loop of the string constructor over s[leftidx..rightidx]
\* (0-based indices, as in the source).
RECURSIVE ChunkValue(_, _, _, _)
ChunkValue(s, j, rightidx, xv) ==
  IF j > rightidx THEN xv
  ELSE ChunkValue(s, j + 1, rightidx, xv * 10 + (s[j + 1] - Ch0))

RECURSIVE ParseChunks(_, _, _, _)
ParseChunks(s, endi, rightidx, n) ==
  IF rightidx >= endi
  THEN LET leftidx == Max(endi, rightidx - (LimbDigits - 1))
       IN  ParseChunks(s, endi, leftidx - 1,
                       Append(n, ChunkValue(s, leftidx, rightidx, 0)))
  ELSE n

\* BigInt(const std::string&): [ok |-> FALSE] is the throw of "Not a number!".
BigIntFromString(s) ==
  IF ~valid_string(s)
  THEN [ok |-> FALSE, val |-> BigIntDefault]
  ELSE LET neg  == s[1] = ChMinus
           endi == IF neg THEN 1 ELSE 0
       IN  [ok |-> TRUE, val |-> MkBig(~neg, ParseChunks(s, endi, Len(s) - 1, <<>>))]

\* ------------------------------------------------------------- rendering
RECURSIVE DecDigits(_)
DecDigits(nv) ==
  IF nv < 10 THEN <<Ch0 + nv>> ELSE Append(DecDigits(nv \div 10), Ch0 + (nv % 10))

\* operator<< of an int64_t.
DecStr(nv) == IF nv < 0 THEN <<ChMinus>> \o DecDigits(0 - nv) ELSE DecDigits(nv)

\* std::setw(w) << std::setfill('0').
PadLeft(s, w) == Rep(Ch0, w - Len(s)) \o s

\* The rendering loop without std::setw(18) on the lower limbs.
RECURSIVE RenderLimbs_NoPad(_, _)
RenderLimbs_NoPad(n, i) ==
  IF i < 1 THEN <<>> ELSE DecStr(n[i]) \o RenderLimbs_NoPad(n, i - 1)

RECURSIVE RenderLimbs(_, _)
RenderLimbs(n, i) ==
  IF i < 1 THEN <<>>
  ELSE (IF i = Len(n) THEN DecStr(n[i]) ELSE PadLeft(DecStr(n[i]), LimbDigits))
       \o RenderLimbs(n, i - 1)

to_string(v) == (IF ~v.sign THEN <<ChMinus>> ELSE <<>>) \o RenderLimbs(v.num, Len(v.num))

\* ------------------------------------------------------------- operator+=, operator-=
PlusAssign(v, other) ==
  normalize(IF v.sign = other.sign
            THEN addAbsolute(v, other)
            ELSE IF GreaterEq(abs(v), abs(other))
                 THEN subAbsolute(v, other)
                 ELSE subAbsolute(other, v))

\* operator-= without the sign flip of its last branch.
MinusAssign_KeepSign(v, other) ==
  normalize(IF v.sign # other.sign
            THEN addAbsolute(v, other)
            ELSE IF GreaterEq(abs(v), abs(other))
                 THEN subAbsolute(v, other)
                 ELSE subAbsolute(other, v))

\* In the last branch tmp is a copy of other, and tmp._sign = !tmp._sign.
MinusAssign(v, other) ==
  normalize(IF v.sign # other.sign
            THEN addAbsolute(v, other)
            ELSE IF GreaterEq(abs(v), abs(other))
                 THEN subAbsolute(v, other)
                 ELSE set_sign(subAbsolute(other, v), ~other.sign))

\* operator-() const.
Negate(v) == IF ~is_zero(v) THEN MkBig(~v.sign, v.num) ELSE v

\* operator++ and operator--: *this += 1, *this -= 1.
PreInc(v) == PlusAssign(v, Big(1))

PreDec(v) == MinusAssign(v, Big(1))

\* ------------------------------------------------------------- multiplication
\* The inner loop of classic_multiply for one limb a.num[i] (ai is its 1-based
\* index, j counts from 0 as in the source): runs while j < b.num.size() or the
\* carry is non-zero.
RECURSIVE MulInner(_, _, _, _, _, _)
MulInner(res, an, bn, ai, j, carry) ==
  IF j < Len(bn) \/ carry # 0
  THEN LET cur == res[ai + j] + an[ai] * (IF j < Len(bn) THEN bn[j + 1] ELSE 0) + carry
       IN  MulInner([res EXCEPT ![ai + j] = CMod(cur, base)], an, bn, ai, j + 1,
                    CDiv(cur, base))
  ELSE res

RECURSIVE MulOuter(_, _, _, _)
MulOuter(res, an, bn, ai) ==
  IF ai > Len(an) THEN res
  ELSE MulOuter(MulInner(res, an, bn, ai, 0, 0), an, bn, ai + 1)

classic_multiply(av, bv) ==
  LET zeros == Rep(0, Len(av.num) + Len(bv.num))
  IN  normalize(MkBig(av.sign = bv.sign, MulOuter(zeros, av.num, bv.num, 1)))

higher_half(xv, m) ==
  IF Len(xv.num) <= m
  THEN MkBig(TRUE, <<0>>)
  ELSE normalize(MkBig(TRUE, SubSeq(xv.num, m + 1, Len(xv.num))))

lower_half(xv, m) ==
  IF Len(xv.num) <= m
  THEN MkBig(TRUE, xv.num)
  ELSE normalize(MkBig(TRUE, SubSeq(xv.num, 1, m)))

\* shift_left inserting one zero limb too many.
shift_left_OneTooFar(xv, m) ==
  IF is_zero(xv) THEN Big(0)
  ELSE MkBig(xv.sign, Rep(0, m + 1) \o xv.num)

shift_left(xv, m) ==
  IF is_zero(xv) THEN Big(0)
  ELSE MkBig(xv.sign, Rep(0, m) \o xv.num)

\* The three recursive products are computed by one application, indexed
\* 1: z0 = karatsuba(x0, y0), 2: z2 = karatsuba(x1, y1),
\* 3: karatsuba(x0 + x1, y0 + y1).
RECURSIVE karatsuba(_, _)
karatsuba(xv, yv) ==
  LET n == Max(Len(xv.num), Len(yv.num))
  IN  IF n <= KARATSUBA_THRESHOLD
      THEN classic_multiply(xv, yv)
      ELSE LET m  == n \div 2
               xh == <<lower_half(xv, m), higher_half(xv, m)>>
               yh == <<lower_half(yv, m), higher_half(yv, m)>>
               xs == <<xh[1], xh[2], PlusAssign(xh[1], xh[2])>>
               ys == <<yh[1], yh[2], PlusAssign(yh[1], yh[2])>>
               p  == <<karatsuba(xs[1], ys[1]), karatsuba(xs[2], ys[2]),
                       karatsuba(xs[3], ys[3])>>
               z1 == MinusAssign(MinusAssign(p[3], p[2]), p[1])
               result == PlusAssign(PlusAssign(shift_left(p[2], 2 * m), shift_left(z1, m)),
                                    p[1])
           IN  normalize(MkBig(xv.sign = yv.sign, result.num))

TimesAssign(v, other) == normalize(karatsuba(v, other))

\* ------------------------------------------------------------- shifts
\* One pass of the doubling loop of operator<<.
RECURSIVE DoubleLoop(_, _, _)
DoubleLoop(n, i, carry) ==
  IF i > Len(n)
  THEN IF carry > 0 THEN Append(n, carry) ELSE n
  ELSE LET temp == n[i] * 2 + carry
       IN  DoubleLoop([n EXCEPT ![i] = CMod(temp, base)], i + 1, CDiv(temp, base))

\* One pass of the halving loop of operator>>, most significant limb first.
RECURSIVE HalveLoop(_, _, _)
HalveLoop(n, i, carry) ==
  IF i < 1 THEN n
  ELSE LET current == carry * base + n[i]
       IN  HalveLoop([n EXCEPT ![i] = CDiv(current, 2)], i - 1, CMod(current, 2))

RECURSIVE DoubleTimes(_, _)
DoubleTimes(n, k) == IF k = 0 THEN n ELSE DoubleTimes(DoubleLoop(n, 1, 0), k - 1)

RECURSIVE HalveTimes(_, _)
HalveTimes(n, k) == IF k = 0 THEN n ELSE HalveTimes(HalveLoop(n, Len(n), 0), k - 1)

\* The two friend operators call each other on a negative shift count.
ShiftLeft(val, shift) ==
  IF shift < 0
  THEN IF Equal(val, Big(0)) THEN Big(0)
       ELSE normalize(MkBig(val.sign, HalveTimes(val.num, 0 - shift)))
  ELSE IF Equal(val, Big(0)) THEN Big(0)
       ELSE normalize(MkBig(val.sign, DoubleTimes(val.num, shift)))

ShiftRight(val, shift) ==
  IF shift < 0
  THEN IF Equal(val, Big(0)) THEN Big(0)
       ELSE normalize(MkBig(val.sign, DoubleTimes(val.num, 0 - shift)))
  ELSE IF Equal(val, Big(0)) THEN Big(0)
       ELSE normalize(MkBig(val.sign, HalveTimes(val.num, shift)))

\* ------------------------------------------------------------- division, modulo
\* The binary search of operator/= for one quotient limb: the value of r when
\* the loop  while (l <= r)  ends.
RECURSIVE DigitSearch(_, _, _, _)
DigitSearch(l, r, divisor, current) ==
  IF LessEq(l, r)
  THEN Bind(ShiftRight(PlusAssign(l, r), 1),
            LAMBDA m :
              IF LessEq(TimesAssign(divisor, m), current)
              THEN DigitSearch(PlusAssign(m, Big(1)), r, divisor, current)
              ELSE DigitSearch(l, MinusAssign(m, Big(1)), divisor, current))
  ELSE r

\* One iteration of the loop over the dividend limbs: current has taken the
\* limb, r is the digit the binary search found for it.
DivStep(quotient, divisor, current, r) ==
  [quotient |-> MkBig(quotient.sign,
                      <<IF Len(r.num) = 0 THEN 0 ELSE r.num[1]>> \o quotient.num),
   current  |-> MinusAssign(current, TimesAssign(divisor, r))]

\* The loop, i from the most significant limb of the dividend down.
RECURSIVE DivLoop(_, _, _, _, _)
DivLoop(dividend, divisor, i, quotient, current) ==
  IF i < 1 THEN quotient
  ELSE Bind(normalize(MkBig(current.sign, <<dividend.num[i]>> \o current.num)),
            LAMBDA cur :
              Bind(DigitSearch(Big(0), Big(base), divisor, cur),
                   LAMBDA r :
                     Bind(DivStep(quotient, divisor, cur, r),
                          LAMBDA st :
                            DivLoop(dividend, divisor, i - 1, st.quotient, st.current))))

\* operator/=: [ok |-> FALSE] is the throw of "Division by zero".
DivAssign(v, other) ==
  IF is_zero(other)
  THEN [ok |-> FALSE, val |-> v]
  ELSE IF Less(abs(v), abs(other))
       THEN [ok |-> TRUE, val |-> MkBig(TRUE, <<0>>)]
       ELSE Bind(DivLoop(abs(v), abs(other), Len(v.num), Big(0), Big(0)),
                 LAMBDA quotient :
                   [ok |-> TRUE, val |-> normalize(MkBig(v.sign = other.sign, quotient.num))])

\* operator%=: [ok |-> FALSE] is the throw of "Modulo by zero".
ModAssign(v, other) ==
  IF is_zero(other)
  THEN [ok |-> FALSE, val |-> v]
  ELSE Bind(DivAssign(v, other).val,
            LAMBDA div :
              Bind(TimesAssign(div, other),
                   LAMBDA mult : [ok |-> TRUE, val |-> normalize(MinusAssign(v, mult))]))

\* ------------------------------------------------------------- state
\* a, b     two BigInt variables of a client program (a is the receiver).
\* op       the last operation applied, x and y its receiver and operand
\*          as they were before it.
\* err      the exception the last operation threw, "none" if it returned.
\* steps    operations applied so far.
\* str, out an input string and the rendering of the value built from it.
\* kc, kk   the products classic_multiply and karatsuba returned for (x, y).
\* arg      the machine integer handed to the last operation.
\* ret      what the last conversion or comparison returned.
\* ma, mb   the val fields of two mint objects.
\* va, vb   two Vector<T> objects.
VARIABLES a, b, op, x, y, err, steps, str, out, kc, kk, arg, ret, ma, mb, va, vb,
          il, ref, dj, hs, call, frame

vars == <<a, b, op, x, y, err, steps, str, out, kc, kk, arg, ret, ma, mb, va, vb,
          il, ref, dj, hs, call, frame>>

\* The variables of the IndexedList, Dijkstra and Hash objects: il is the
\* list and ref the plain sequence the same calls build, dj the Dijkstra
\* object, hs the Hash object, call the arguments of the last call, frame the
\* local variables of an operation that is still running.
ext == <<il, ref, dj, hs, call, frame>>

\* No such object has been constructed.
NoObject == <<>>

ExtIdle ==
  /\ il = NoObject /\ ref = NoObject /\ dj = NoObject /\ hs = NoObject
  /\ call = NoObject /\ frame = NoObject

\* The variables of the mint and Vector objects and of the integer arguments.
aux == <<arg, ret, ma, mb, va, vb, ext>>

\* Vector(): no buffer.  head is the allocated buffer, one entry per element
\* of the allocation; size and cap are the fields _size and _capacity.
EmptyVector == [size |-> 0, cap |-> 0, head |-> <<>>]

AuxIdle ==
  /\ arg = 0 /\ ret = 0 /\ ma = 0 /\ mb = 0
  /\ va = EmptyVector /\ vb = EmptyVector
  /\ ExtIdle

\* ------------------------------------------------------------- inputs
\* Machine integers handed to BigInt(int64_t) (their negation is defined).
IntInputs ==
  {0, 1, 0 - 1, 2, 3, 0 - 3, base - 1, base, 0 - (base + 1), INT64_MAX}

\* Strings handed to BigInt(const std::string&) that it accepts: canonical
\* ones, and ones with a sign only, a signed zero or leading zeros.
StrInputs ==
  { <<Ch0>>, <<Ch0 + 7>>, <<ChMinus, Ch0 + 5>>,
    Rep(Ch9, 2 * LimbDigits),
    <<ChMinus, Ch0 + 1>> \o Rep(Ch0, LimbDigits) \o <<Ch0 + 2>>,
    <<ChMinus>>, <<ChMinus, Ch0>>,
    Rep(Ch0, LimbDigits + 1),
    Rep(Ch0, LimbDigits) \o <<Ch0 + 3>>,
    <<ChMinus>> \o Rep(Ch0, LimbDigits) \o <<Ch0 + 5>> }

\* Every value a constructor call on these inputs returns.
Constructed ==
  {BigIntDefault}
    \cup UNION {BigIntFromInt(i) : i \in IntInputs}
    \cup {BigIntFromString(s).val : s \in {s2 \in StrInputs : BigIntFromString(s2).ok}}

ShiftCounts == {0 - 1, 1, 2}

Idle ==
  /\ str = <<>> /\ out = <<>> /\ kc = BigIntDefault /\ kk = BigIntDefault
  /\ AuxIdle

\* ------------------------------------------------------------- the register machine
Init ==
  /\ a \in Constructed
  /\ b \in Constructed
  /\ op = "init" /\ x = a /\ y = b
  /\ err = "none" /\ steps = 0
  /\ Idle

\* The receiver becomes res; x and y record the operands.
Apply(name, res) ==
  /\ steps < MaxSteps
  /\ a' = res
  /\ op' = name /\ x' = a /\ y' = b
  /\ err' = "none" /\ steps' = steps + 1
  /\ UNCHANGED <<b, str, out, kc, kk, aux>>

\* The operation throws: the receiver keeps its value.
Throw(name, e) ==
  /\ steps < MaxSteps
  /\ op' = name /\ x' = a /\ y' = b
  /\ err' = e /\ steps' = steps + 1
  /\ UNCHANGED <<a, b, str, out, kc, kk, aux>>

Fits(n) == n <= MaxLimbs

OpPlusAssign ==
  /\ Fits(Max(Len(a.num), Len(b.num)) + 1)
  /\ Apply("+=", PlusAssign(a, b))

OpMinusAssign ==
  /\ Fits(Max(Len(a.num), Len(b.num)) + 1)
  /\ Apply("-=", MinusAssign(a, b))

OpTimesAssign ==
  /\ Fits(Len(a.num) + Len(b.num))
  /\ Apply("*=", TimesAssign(a, b))

OpDivAssign ==
  \E r \in {DivAssign(a, b)} :
    IF r.ok THEN Apply("/=", r.val) ELSE Throw("/=", "DivisionByZero")

OpModAssign ==
  \E r \in {ModAssign(a, b)} :
    IF r.ok THEN Apply("%=", r.val) ELSE Throw("%=", "DivisionByZero")

OpShiftLeft ==
  \E k \in ShiftCounts :
    /\ Fits(Len(a.num) + 1)
    /\ Apply("<<", ShiftLeft(a, k))

OpShiftRight ==
  \E k \in ShiftCounts :
    /\ Fits(Len(a.num) + 1)
    /\ Apply(">>", ShiftRight(a, k))

OpNegate == Apply("neg", Negate(a))

OpPreInc == /\ Fits(Len(a.num) + 1) /\ Apply("++", PreInc(a))

OpPreDec == /\ Fits(Len(a.num) + 1) /\ Apply("--", PreDec(a))

OpAbs == Apply("abs", abs(a))

OpInvAbs == Apply("inv_abs", inv_abs(a))

OpSetSign == \E s \in BOOLEAN : Apply("set_sign", set_sign(a, s))

Next ==
  \/ OpPlusAssign \/ OpMinusAssign \/ OpTimesAssign \/ OpDivAssign \/ OpModAssign
  \/ OpShiftLeft \/ OpShiftRight \/ OpNegate \/ OpPreInc \/ OpPreDec
  \/ OpAbs \/ OpInvAbs \/ OpSetSign

Spec == Init /\ [][Next]_vars

\* ------------------------------------------------------------- one operation on a pair
\* Operands of the pair specification: every limb sequence of up to
\* MaxMulLimbs limbs over the given limbs, with either sign.  They include the
\* sequences the string constructor builds without normalizing (trailing zero
\* limbs, no limb at all) and two operands long enough for a second level of
\* Karatsuba recursion.
RECURSIVE LimbSeqs(_, _)
LimbSeqs(limbs, len) ==
  IF len = 0 THEN {<<>>}
  ELSE LimbSeqs(limbs, len - 1)
         \cup {Append(s, l) : s \in {s2 \in LimbSeqs(limbs, len - 1) : Len(s2) = len - 1},
                              l \in limbs}

LongLimbs ==
  {Rep(base - 1, 2 * KARATSUBA_THRESHOLD + 1),
   <<1>> \o Rep(0, 2 * KARATSUBA_THRESHOLD - 1) \o <<base - 1>>}

OperandsX ==
  {MkBig(s, n) : s \in BOOLEAN, n \in LimbSeqs({0, 1, base - 1}, MaxMulLimbs) \cup LongLimbs}

OperandsY ==
  {MkBig(s, n) : s \in BOOLEAN, n \in LimbSeqs({0, base - 1}, MaxMulLimbs) \cup LongLimbs}

InitPair ==
  /\ x \in OperandsX
  /\ y \in OperandsY
  /\ a = x /\ b = y
  /\ op = "init" /\ err = "none" /\ steps = 0
  /\ Idle

\* Both multiplication routines on the pair.
Multiply ==
  /\ op = "init"
  /\ kc' = classic_multiply(x, y)
  /\ kk' = karatsuba(x, y)
  /\ op' = "mul"
  /\ UNCHANGED <<a, b, x, y, err, steps, str, out, aux>>

\* a -= b.
Subtract ==
  /\ op = "init"
  /\ a' = MinusAssign(a, b)
  /\ op' = "-="
  /\ UNCHANGED <<b, x, y, err, steps, str, out, kc, kk, aux>>

\* a += b.
Add ==
  /\ op = "init"
  /\ a' = PlusAssign(a, b)
  /\ op' = "+="
  /\ UNCHANGED <<b, x, y, err, steps, str, out, kc, kk, aux>>

NextPair == Multiply \/ Subtract \/ Add

SpecPair == InitPair /\ [][NextPair]_vars

\* ------------------------------------------------------------- strings
\* Characters of the input strings: the sign, three digits, and the two
\* characters next to the digits in ASCII ('/' and ':').
Alphabet == {ChMinus, Ch0, Ch0 + 1, Ch9, Ch0 - 1, Ch9 + 1}

InitStr ==
  /\ str \in LimbSeqs(Alphabet, MaxStrLen)
  /\ a = BigIntDefault /\ b = BigIntDefault
  /\ x = a /\ y = b
  /\ op = "init" /\ err = "none" /\ steps = 0
  /\ out = <<>> /\ kc = BigIntDefault /\ kk = BigIntDefault
  /\ AuxIdle

\* a = str (operator=(const std::string&): *this = BigInt(other)).
AssignString ==
  /\ op = "init"
  /\ \E r \in {BigIntFromString(str)} :
       /\ a' = IF r.ok THEN r.val ELSE a
       /\ err' = IF r.ok THEN "none" ELSE "InvalidFormat"
  /\ op' = "ctor"
  /\ UNCHANGED <<b, x, y, steps, str, out, kc, kk, aux>>

\* std::string(a).
Render ==
  /\ op = "ctor" /\ err = "none"
  /\ out' = to_string(a)
  /\ op' = "render"
  /\ UNCHANGED <<a, b, x, y, err, steps, str, kc, kk, aux>>

NextStr == AssignString \/ Render

SpecStr == InitStr /\ [][NextStr]_vars

\* ------------------------------------------------------------- denotation
\* The integer a limb sequence denotes, and the integer a BigInt denotes.
RECURSIVE MagVal(_)
MagVal(n) == IF Len(n) = 0 THEN 0 ELSE n[1] + base * MagVal(Tail(n))

Val(v) == IF v.sign THEN MagVal(v.num) ELSE 0 - MagVal(v.num)

AbsInt(i) == IF i < 0 THEN 0 - i ELSE i

\* Non-empty, and no most-significant zero limb unless it is the single limb 0.
Canonical(v) == Len(v.num) >= 1 /\ (Len(v.num) = 1 \/ v.num[Len(v.num)] # 0)

\* -?[0-9]+
MatchesGrammar(s) ==
  LET digits == IF Len(s) >= 1 /\ s[1] = ChMinus THEN Tail(s) ELSE s
  IN  Len(digits) >= 1 /\ \A i \in 1..Len(digits) : digits[i] \in Ch0..Ch9

\* Canonical decimal strings: -?[0-9]+ with no leading zero unless "0", no "-0".
CanonicalString(s) ==
  LET digits == IF Len(s) >= 1 /\ s[1] = ChMinus THEN Tail(s) ELSE s
  IN  /\ MatchesGrammar(s)
      /\ (digits[1] = Ch0 => (Len(digits) = 1 /\ s = digits))

\* ------------------------------------------------------------- claims
\* C1: for every a and every d of non-zero magnitude, a == (a/d)*d + (a%d)
\* and |a%d| < |d|.  After a %= d the receiver holds a%d and x, y hold a, d.
C1_DivModIdentity ==
  (op = "%=" /\ err = "none" /\ MagVal(y.num) # 0) =>
    /\ Val(x) = Val(DivAssign(x, y).val) * Val(y) + Val(a)
    /\ AbsInt(Val(a)) < AbsInt(Val(y))

\* C2: every value a constructor or an operator produces has a non-empty limb
\* sequence whose most significant limb is non-zero unless it is the single
\* limb 0.
C2_AlwaysCanonical == Canonical(a) /\ Canonical(b)

\* C3: every BigInt of zero magnitude has sign = true.
C3_ZeroIsNonNegative ==
  /\ (MagVal(a.num) = 0 => a.sign)
  /\ (MagVal(b.num) = 0 => b.sign)

\* C4: for a, b built from machine integers or accepted strings, exactly one
\* of a<b, a==b, a>b holds, the one the denoted integers give, and a>=b, a<=b
\* are the corresponding unions.
C4_OrderMatchesIntegers ==
  op = "init" =>
    /\ Less(a, b) = (Val(a) < Val(b))
    /\ Equal(a, b) = (Val(a) = Val(b))
    /\ Greater(a, b) = (Val(a) > Val(b))
    /\ GreaterEq(a, b) = (Greater(a, b) \/ Equal(a, b))
    /\ LessEq(a, b) = (Less(a, b) \/ Equal(a, b))
    /\ NotEqual(a, b) = ~Equal(a, b)

C6_ExactProduct ==
  op = "*=" =>
    /\ Val(a) = Val(x) * Val(y)
    /\ a.sign = (x.sign = y.sign \/ MagVal(x.num) * MagVal(y.num) = 0)

\* C7: a + b denotes the exact integer sum for all sign combinations.
C7_ExactSum == op = "+=" => Val(a) = Val(x) + Val(y)

C9_GrammarEnforced ==
  op = "ctor" =>
    /\ (err = "InvalidFormat") = ~MatchesGrammar(str)
    /\ (err = "InvalidFormat" => a = BigIntDefault)

\* C10: render(parse(s)) == s for every canonical decimal string s, of any
\* length.
C10_RoundTrip == (op = "render" /\ CanonicalString(str)) => out = str

\* C10 witness: a negative canonical string of several limbs, one of them
\* shorter than a full limb, rendered back.
C10_Witness ==
  /\ op = "render" /\ CanonicalString(str)
  /\ ~a.sign /\ Len(a.num) >= 2
  /\ a.num[1] < base \div 10
  /\ out = str

\* C11: for every a and every d of zero magnitude, a /= d and a %= d (and
\* a / d, a % d, which call them on a copy) raise the division-by-zero error,
\* never return a value, and leave the receiver with its prior sign and limbs.
C11_ZeroDivisorThrows ==
  (op \in {"/=", "%="} /\ MagVal(y.num) = 0) =>
    (err = "DivisionByZero" /\ a = x)

\* ------------------------------------------------------------- bitwise operators
\* The built-in &, |, ^ and ~ on int64_t limbs, in two's complement: p % 2 is
\* the lowest bit and p \div 2 the arithmetic shift (both round down).
RECURSIVE BitAnd(_, _)
BitAnd(p, q) ==
  IF p = 0 \/ q = 0 THEN 0
  ELSE IF p = 0 - 1 THEN q
  ELSE IF q = 0 - 1 THEN p
  ELSE (p % 2) * (q % 2) + 2 * BitAnd(p \div 2, q \div 2)

RECURSIVE BitOr(_, _)
BitOr(p, q) ==
  IF p = 0 THEN q
  ELSE IF q = 0 THEN p
  ELSE IF p = 0 - 1 \/ q = 0 - 1 THEN 0 - 1
  ELSE Max(p % 2, q % 2) + 2 * BitOr(p \div 2, q \div 2)

BitNot(p) == (0 - p) - 1

RECURSIVE BitXor(_, _)
BitXor(p, q) ==
  IF p = 0 THEN q
  ELSE IF q = 0 THEN p
  ELSE IF p = 0 - 1 THEN BitNot(q)
  ELSE IF q = 0 - 1 THEN BitNot(p)
  ELSE ((p + q) % 2) + 2 * BitXor(p \div 2, q \div 2)

\* operator&=: the common limbs are and-ed, the receiver's other limbs zeroed.
AndAssign(v, other) ==
  LET n == Min(Len(v.num), Len(other.num))
  IN  normalize(MkBig(v.sign,
        [i \in 1..Len(v.num) |->
           IF i <= n THEN BitAnd(v.num[i], other.num[i]) ELSE 0]))

\* operator|=: the receiver is resized to the longer length, then or-ed with
\* the operand's limbs.
OrAssign(v, other) ==
  LET n == Max(Len(v.num), Len(other.num))
      padded == PadZeros(v.num, n)
  IN  normalize(MkBig(v.sign,
        [i \in 1..n |->
           IF i <= Len(other.num) THEN BitOr(padded[i], other.num[i]) ELSE padded[i]]))

\* operator^=.
XorAssign(v, other) ==
  LET n == Max(Len(v.num), Len(other.num))
      padded == PadZeros(v.num, n)
  IN  normalize(MkBig(v.sign,
        [i \in 1..n |->
           IF i <= Len(other.num) THEN BitXor(padded[i], other.num[i]) ELSE padded[i]]))

\* operator~: every limb is complemented.
Not(v) == normalize(MkBig(v.sign, [i \in 1..Len(v.num) |-> BitNot(v.num[i])]))

\* One bitwise operation on two constructed values.
InitBits == Init

OpAndAssign == /\ op = "init" /\ Apply("&=", AndAssign(a, b))

OpOrAssign == /\ op = "init" /\ Apply("|=", OrAssign(a, b))

OpXorAssign == /\ op = "init" /\ Apply("^=", XorAssign(a, b))

OpNot == /\ op = "init" /\ Apply("~", Not(a))

NextBits == OpAndAssign \/ OpOrAssign \/ OpXorAssign \/ OpNot

SpecBits == InitBits /\ [][NextBits]_vars

\* C12: after any operator completes, the bitwise operators &, |, ^ and ~
\* included, every limb of the result is in [0, RADIX): none is negative and
\* none is >= RADIX.
C12_LimbsInRadix ==
  op \in {"&=", "|=", "^=", "~"} =>
    \A i \in 1..Len(a.num) : a.num[i] >= 0 /\ a.num[i] < base

\* ------------------------------------------------------------- machine integers
\* std::stoll on the rendering: an optional sign, then digits.  No digit is
\* std::invalid_argument, a value outside int64_t is std::out_of_range; the
\* conversion operator rethrows both as std::overflow_error.
RECURSIVE DigitsValue(_, _)
DigitsValue(s, acc) ==
  IF Len(s) = 0 \/ ~IsDigitCh(s[1]) THEN acc
  ELSE DigitsValue(Tail(s), acc * 10 + (s[1] - Ch0))

RECURSIVE DigitsCount(_)
DigitsCount(s) ==
  IF Len(s) = 0 \/ ~IsDigitCh(s[1]) THEN 0 ELSE 1 + DigitsCount(Tail(s))

stoll(s) ==
  LET neg == Len(s) >= 1 /\ s[1] = ChMinus
      digits == IF neg THEN Tail(s) ELSE s
      cnt == DigitsCount(digits)
      mag == DigitsValue(digits, 0)
      v == IF neg THEN 0 - mag ELSE mag
  IN  IF cnt = 0 THEN [ok |-> FALSE, val |-> 0, pos |-> 0, what |-> "invalid_argument"]
      ELSE IF v < INT64_MIN \/ v > INT64_MAX
           THEN [ok |-> FALSE, val |-> 0, pos |-> 0, what |-> "out_of_range"]
           ELSE [ok |-> TRUE, val |-> v, pos |-> cnt + (IF neg THEN 1 ELSE 0), what |-> "none"]

\* explicit operator int64_t(): [ok |-> FALSE] is the std::overflow_error.
ToInt64(v) ==
  LET s == to_string(v)
      r == stoll(s)
  IN  IF r.ok /\ r.pos = Len(s) THEN [ok |-> TRUE, val |-> r.val]
      ELSE [ok |-> FALSE, val |-> 0]

\* Values on both sides of the int64_t range, next to the constructed ones.
WideOperands ==
  {BigIntFromString(s).val :
     s \in {DecStr(INT64_MAX + 1), DecStr(INT64_MIN), DecStr(INT64_MIN - 1),
            DecStr(base * base), DecStr(0 - (base * base + 7)), DecStr(INT64_MAX - 1)}}

ShiftArgs == {0 - 2, 0 - 1, 0, 1, 2, 3}

InitInt ==
  /\ a \in Constructed \cup WideOperands
  /\ b = BigIntDefault
  /\ op = "init" /\ x = a /\ y = b
  /\ err = "none" /\ steps = 0
  /\ Idle

\* a = a << cnt.
ShiftLeftBy ==
  /\ op = "init"
  /\ \E cnt \in ShiftArgs :
       /\ a' = ShiftLeft(a, cnt)
       /\ arg' = cnt
  /\ op' = "<<"
  /\ UNCHANGED <<b, x, y, err, steps, str, out, kc, kk, ret, ma, mb, va, vb, ext>>

\* a = a >> cnt.
ShiftRightBy ==
  /\ op = "init"
  /\ \E cnt \in ShiftArgs :
       /\ a' = ShiftRight(a, cnt)
       /\ arg' = cnt
  /\ op' = ">>"
  /\ UNCHANGED <<b, x, y, err, steps, str, out, kc, kk, ret, ma, mb, va, vb, ext>>

\* ret = int64_t(a).
ConvertToInt64 ==
  /\ op = "init"
  /\ \E r \in {ToInt64(a)} :
       /\ ret' = IF r.ok THEN r.val ELSE ret
       /\ err' = IF r.ok THEN "none" ELSE "Overflow"
  /\ op' = "int64"
  /\ UNCHANGED <<a, b, x, y, steps, str, out, kc, kk, arg, ma, mb, va, vb, ext>>

\* a = BigInt(i) for any int64_t i.
ConstructFromInt64 ==
  /\ op = "init"
  /\ \E i \in INT64_MIN..INT64_MAX :
       /\ a' \in BigIntFromInt(i)
       /\ arg' = i
  /\ op' = "ctor64"
  /\ UNCHANGED <<b, x, y, err, steps, str, out, kc, kk, ret, ma, mb, va, vb, ext>>

NextInt == ShiftLeftBy \/ ShiftRightBy \/ ConvertToInt64 \/ ConstructFromInt64

SpecInt == InitInt /\ [][NextInt]_vars

\* v multiplied by 2, n times, and v divided by 2 (operator/), n times.
RECURSIVE TimesTwo(_, _)
TimesTwo(v, n) == IF n <= 0 THEN v ELSE TimesTwo(TimesAssign(v, Big(2)), n - 1)

RECURSIVE OverTwo(_, _)
OverTwo(v, n) == IF n <= 0 THEN v ELSE OverTwo(DivAssign(v, Big(2)).val, n - 1)

\* C13: a << k is a multiplied by 2 k times and a >> k is a divided by 2 k
\* times for k >= 0; a negative k performs the opposite shift by -k.
C13_ShiftIsRepeatedDoubling ==
  /\ (op = "<<" /\ arg >= 0) => a = TimesTwo(x, arg)
  /\ (op = ">>" /\ arg >= 0) => a = OverTwo(x, arg)
  /\ (op = "<<" /\ arg < 0) => a = OverTwo(x, 0 - arg)
  /\ (op = ">>" /\ arg < 0) => a = TimesTwo(x, 0 - arg)

\* C14: the conversion to int64_t returns the denoted integer exactly when it
\* lies in [-2^63, 2^63 - 1] and raises the overflow error outside that range.
C14_ConversionExactOrOverflow ==
  op = "int64" =>
    IF Val(x) >= INT64_MIN /\ Val(x) <= INT64_MAX
    THEN err = "none" /\ ret = Val(x)
    ELSE err = "Overflow"

\* C15: for every int64_t i, the minimum included, BigInt(i) denotes i: the
\* sign is that of i and the limbs are i % RADIX, i / RADIX, ... of |i|.
C15_FromInt64Exact ==
  op = "ctor64" =>
    /\ Val(a) = arg
    /\ a.sign = (arg >= 0)
    /\ Canonical(a)
    /\ \A i \in 1..Len(a.num) : a.num[i] >= 0 /\ a.num[i] < base

\* ------------------------------------------------------------- the operand is the receiver
\* a op= a: the parameter other is a reference to *this, so every read of
\* other.num[i] returns the limb the receiver holds at that moment.

\* The loop of addAbsolute reading its operand limb after the store to num[i].
RECURSIVE addLoopAliased_ReadAfterStore(_, _, _, _)
addLoopAliased_ReadAfterStore(n, i, carry, len) ==
  IF i > len
  THEN IF carry # 0 THEN Append(n, carry) ELSE n
  ELSE LET stored == CMod(n[i] + carry, base)
           sum == n[i] + stored + carry
       IN  addLoopAliased_ReadAfterStore([n EXCEPT ![i] = CMod(sum, base)],
                                         i + 1, CDiv(sum, base), len)

\* The loop of addAbsolute: num[i] and other.num[i] are the same limb, read in
\* one expression before the store to num[i].
RECURSIVE addLoopAliased(_, _, _, _)
addLoopAliased(n, i, carry, len) ==
  IF i > len
  THEN IF carry # 0 THEN Append(n, carry) ELSE n
  ELSE LET sum == n[i] + (IF i <= Len(n) THEN n[i] ELSE 0) + carry
       IN  addLoopAliased([n EXCEPT ![i] = CMod(sum, base)], i + 1, CDiv(sum, base), len)

addAbsoluteAliased(v) == MkBig(v.sign, addLoopAliased(v.num, 1, 0, Len(v.num)))

\* The loop of subAbsolute with o.num[i] the receiver's own limb.
RECURSIVE subLoopAliased(_, _, _)
subLoopAliased(n, i, borrow) ==
  IF i > Len(n)
  THEN n
  ELSE LET diff == (n[i] - (IF i <= Len(n) THEN n[i] ELSE 0)) - borrow
       IN  IF diff < 0
           THEN subLoopAliased([n EXCEPT ![i] = diff + base], i + 1, 1)
           ELSE subLoopAliased([n EXCEPT ![i] = diff], i + 1, 0)

subAbsoluteAliased(v) == MkBig(v.sign, subLoopAliased(v.num, 1, 0))

\* a += a.  In the last branch tmp is a copy, so tmp.subAbsolute(*this) reads
\* a vector it does not write.
PlusAssignAliased(v) ==
  normalize(IF v.sign = v.sign
            THEN addAbsoluteAliased(v)
            ELSE IF GreaterEq(abs(v), abs(v))
                 THEN subAbsoluteAliased(v)
                 ELSE subAbsolute(v, v))

\* a -= a.
MinusAssignAliased(v) ==
  normalize(IF v.sign # v.sign
            THEN addAbsoluteAliased(v)
            ELSE IF GreaterEq(abs(v), abs(v))
                 THEN subAbsoluteAliased(v)
                 ELSE set_sign(subAbsolute(v, v), ~v.sign))

\* a *= a: karatsuba reads both arguments through const references and the
\* receiver is assigned only when it has returned.
TimesAssignAliased(v) == normalize(karatsuba(v, v))

\* a /= a: is_zero, the result sign and the copies abs() of both operands are
\* taken before the first assignment to *this.
DivAssignAliased(v) ==
  IF is_zero(v)
  THEN [ok |-> FALSE, val |-> v]
  ELSE IF Less(abs(v), abs(v))
       THEN [ok |-> TRUE, val |-> MkBig(TRUE, <<0>>)]
       ELSE Bind(DivLoop(abs(v), abs(v), Len(v.num), Big(0), Big(0)),
                 LAMBDA quotient :
                   [ok |-> TRUE, val |-> normalize(MkBig(v.sign = v.sign, quotient.num))])

\* a %= a: div and mult are computed from copies, then *this -= mult with
\* mult a separate object.
ModAssignAliased(v) ==
  IF is_zero(v)
  THEN [ok |-> FALSE, val |-> v]
  ELSE Bind(DivAssignAliased(v).val,
            LAMBDA div :
              Bind(TimesAssign(div, v),
                   LAMBDA mult : [ok |-> TRUE, val |-> normalize(MinusAssign(v, mult))]))

\* Receivers: every limb sequence of up to MaxMulLimbs - 1 limbs over the
\* limbs 0, 1 and base - 1, with either sign.
SelfOperands ==
  {MkBig(s, n) : s \in BOOLEAN, n \in LimbSeqs({0, 1, base - 1}, MaxMulLimbs - 1)}

InitSelf ==
  /\ a \in SelfOperands
  /\ b = a /\ x = a /\ y = a
  /\ op = "init" /\ err = "none" /\ steps = 0
  /\ Idle

\* The receiver becomes r.val, or keeps its value if the operator threw.
SelfApply(name, r) ==
  /\ op = "init"
  /\ a' = IF r.ok THEN r.val ELSE a
  /\ err' = IF r.ok THEN "none" ELSE "DivisionByZero"
  /\ op' = name
  /\ UNCHANGED <<b, x, y, steps, str, out, kc, kk, aux>>

SelfPlus == \E r \in {PlusAssignAliased(a)} : SelfApply("+=", [ok |-> TRUE, val |-> r])

SelfMinus == \E r \in {MinusAssignAliased(a)} : SelfApply("-=", [ok |-> TRUE, val |-> r])

SelfTimes == \E r \in {TimesAssignAliased(a)} : SelfApply("*=", [ok |-> TRUE, val |-> r])

SelfDiv == \E r \in {DivAssignAliased(a)} : SelfApply("/=", r)

SelfMod == \E r \in {ModAssignAliased(a)} : SelfApply("%=", r)

NextSelf == SelfPlus \/ SelfMinus \/ SelfTimes \/ SelfDiv \/ SelfMod

SpecSelf == InitSelf /\ [][NextSelf]_vars

\* C16: for each of +=, -=, *=, /=, %=, executing a op= a leaves a equal to
\* the result of a op= c with c an independent copy of a's prior value (x
\* is that value; an operator that throws on the copy throws on the alias).
C16_AliasedOperand ==
  /\ op = "+=" => a = PlusAssign(x, x)
  /\ op = "-=" => a = MinusAssign(x, x)
  /\ op = "*=" => a = TimesAssign(x, x)
  /\ op = "/=" => \A r \in {DivAssign(x, x)} :
                    /\ (err = "DivisionByZero") = ~r.ok
                    /\ a = (IF r.ok THEN r.val ELSE x)
  /\ op = "%=" => \A r \in {ModAssign(x, x)} :
                    /\ (err = "DivisionByZero") = ~r.ok
                    /\ a = (IF r.ok THEN r.val ELSE x)

\* C16 witness: a += a on a receiver of several limbs where the doubling of
\* a limb carries into the next one.
C16_Witness ==
  /\ op = "+="
  /\ Len(x.num) >= 2 /\ x.num[1] = base - 1 /\ x.num[2] = 1
  /\ Canonical(x)
  /\ a.num[2] = 3
  /\ a = PlusAssign(x, x)

\* ------------------------------------------------------------- mint
\* The modulus (998244353 in the source) and the int64_t range are scaled
\* together: the square of the modulus fits in a word about nine times over,
\* as 998244353^2 does in int64_t.
MOD == 13

WORD_MAX == 9 * MOD * MOD + 2 * MOD

WORD_MIN == (0 - WORD_MAX) - 1

InWord(v) == v >= WORD_MIN /\ v <= WORD_MAX

\* The result of int64_t arithmetic: ub is signed overflow.
Word(v) == IF InWord(v) THEN [ub |-> FALSE, val |-> v] ELSE [ub |-> TRUE, val |-> 0]

Overflowed == [ub |-> TRUE, val |-> 0]

\* What a variable may hold after the signed overflow: the ends of the
\* int64_t range, values next to zero and values next to the modulus.
OverflowOutcomes == {WORD_MIN, 0 - 1, 0, MOD - 1, MOD, WORD_MAX}

\* mint(int64_t val).
mintFromInt(v) ==
  IF v >= MOD \/ v < 0 THEN CMod(CMod(v, MOD) + MOD, MOD) ELSE v

\* operator=(const int64_t&): this->val = other.
mintAssignInt(v) == v

\* operator+=(const mint&) on the val fields.
mintPlusAssign(v, o) ==
  IF ~InWord(v + o) THEN Overflowed
  ELSE Word(IF v + o >= MOD THEN (v + o) - MOD ELSE v + o)

\* operator-=(const mint&).
mintMinusAssign(v, o) ==
  IF ~InWord(v - o) THEN Overflowed
  ELSE Word(IF v - o < 0 THEN (v - o) + MOD ELSE v - o)

\* operator*=(const mint&) and operator*=(const int64_t&): the product is an
\* int64_t, and *this = result selects operator=(const int64_t&).
mintTimesAssign(v, o) == Word(mintAssignInt(v * o))

\* The same on results that may already have overflowed.
mintTimes(p, q) == IF p.ub \/ q.ub THEN Overflowed ELSE mintTimesAssign(p.val, q.val)

RECURSIVE fast_pow(_, _)
fast_pow(xv, yv) ==
  IF yv = 0 THEN Word(mintFromInt(1))
  ELSE Bind(fast_pow(xv, yv \div 2),
            LAMBDA h :
              IF yv % 2 = 1 THEN mintTimes(mintTimes(h, h), Word(xv))
              ELSE mintTimes(h, h))

\* operator/=(const mint&).
mintDivAssign(v, o) == mintTimes(Word(v), fast_pow(o, MOD - 2))

\* operator<< and operator>> call each other on a negative count.
RECURSIVE mintShift(_, _, _)
mintShift(p, shift, left) ==
  IF shift < 0 THEN mintShift(p, 0 - shift, ~left)
  ELSE IF shift = 0 THEN p
  ELSE Bind(mintShift(p, shift - 1, left),
            LAMBDA h :
              IF h.ub THEN Overflowed
              ELSE IF left THEN mintTimesAssign(h.val, 2)
              ELSE mintDivAssign(h.val, mintFromInt(2)))

\* operator++ and operator--: *this += 1, *this -= 1 through mint(1).
mintPreInc(v) == mintPlusAssign(v, mintFromInt(1))

mintPreDec(v) == mintMinusAssign(v, mintFromInt(1))

\* Machine integers handed to the constructor and to the assignment.
MintArgs == ((0 - 2) * MOD - 1)..(2 * MOD + 1)

MintShifts == {0 - 2, 0 - 1, 0, 1, 2, 5}

InitMint ==
  /\ ma \in {mintFromInt(i) : i \in MintArgs}
  /\ mb \in {mintFromInt(i) : i \in MintArgs}
  /\ arg = 0 /\ ret = 0
  /\ va = EmptyVector /\ vb = EmptyVector /\ ExtIdle
  /\ a = BigIntDefault /\ b = BigIntDefault /\ x = a /\ y = b
  /\ op = "init" /\ err = "none" /\ steps = 0
  /\ str = <<>> /\ out = <<>> /\ kc = BigIntDefault /\ kk = BigIntDefault

\* ma becomes the result r; after a signed overflow the stored value is one
\* of OverflowOutcomes and the object is not used again.
MintApply(name, r) ==
  /\ steps < MaxSteps /\ err = "none"
  /\ IF r.ub
     THEN ma' \in OverflowOutcomes /\ err' = "SignedOverflow"
     ELSE ma' = r.val /\ err' = "none"
  /\ op' = name /\ steps' = steps + 1
  /\ UNCHANGED <<a, b, x, y, str, out, kc, kk, ret, mb, va, vb, ext>>

MintConstruct ==
  \E i \in MintArgs : /\ arg' = i /\ MintApply("mint(int64_t)", Word(mintFromInt(i)))

MintAssignInt ==
  \E i \in MintArgs : /\ arg' = i /\ MintApply("=int64_t", Word(mintAssignInt(i)))

MintPlus == /\ arg' = arg /\ MintApply("+=", mintPlusAssign(ma, mb))

MintMinus == /\ arg' = arg /\ MintApply("-=", mintMinusAssign(ma, mb))

MintTimes == /\ arg' = arg /\ MintApply("*=", mintTimesAssign(ma, mb))

MintDiv == /\ arg' = arg /\ \E r \in {mintDivAssign(ma, mb)} : MintApply("/=", r)

MintShiftLeft ==
  \E cnt \in MintShifts :
    /\ arg' = cnt
    /\ \E r \in {mintShift(Word(ma), cnt, TRUE)} : MintApply("<<", r)

MintShiftRight ==
  \E cnt \in MintShifts :
    /\ arg' = cnt
    /\ \E r \in {mintShift(Word(ma), cnt, FALSE)} : MintApply(">>", r)

MintPreInc == /\ arg' = arg /\ MintApply("++", mintPreInc(ma))

MintPreDec == /\ arg' = arg /\ MintApply("--", mintPreDec(ma))

\* ret = ((ma / mb) * mb == ma), evaluated on temporaries.
MintDivThenTimes ==
  /\ op = "init" /\ err = "none"
  /\ \E r \in {mintTimes(mintDivAssign(ma, mb), Word(mb))} :
       IF r.ub
       THEN ret' \in BOOLEAN /\ err' = "SignedOverflow"
       ELSE ret' = (r.val = ma) /\ err' = "none"
  /\ op' = "(a/b)*b==a"
  /\ UNCHANGED <<a, b, x, y, steps, str, out, kc, kk, arg, ma, mb, va, vb, ext>>

NextMint ==
  \/ MintConstruct \/ MintAssignInt \/ MintPlus \/ MintMinus \/ MintTimes
  \/ MintDiv \/ MintShiftLeft \/ MintShiftRight \/ MintPreInc \/ MintPreDec
  \/ MintDivThenTimes

SpecMint == InitMint /\ [][NextMint]_vars

\* C17: after construction and after every mint operation (construction or
\* assignment from int64_t, +, -, *, /, <<, >>, ++, --), the stored value
\* is in [0, MOD).
C17_MintInRange == ma >= 0 /\ ma < MOD /\ mb >= 0 /\ mb < MOD

\* C18: for all mint a and all b with b != 0 modulo MOD, (a / b) * b == a,
\* and every intermediate product fits in a signed 64-bit integer.
C18_DivisionInvertsTimes ==
  (op = "(a/b)*b==a" /\ mb % MOD # 0) => (err = "none" /\ ret = TRUE)

\* ------------------------------------------------------------- Vector<T>
\* A Vector is [size, cap, head]: the fields _size and _capacity, and the
\* buffer _head points to, one entry per element of the allocation (<<>> is
\* nullptr).  An entry new T[n] left uninitialized holds Junk.
MaxVecLen == 3

Junk == 0 - 1

\* Element values the client stores, and the values a read of an
\* uninitialized entry or of memory outside the buffer may return.
Elem == {1, 2}

AnyValue == 0..3

MkVec(s, c, h) == [size |-> s, cap |-> c, head |-> h]

\* The first n entries of buffer h copied into a new buffer of len entries;
\* an entry read outside h and every entry not written is Junk.
CopyInto(h, n, len) ==
  LET m == Min(n, len)
  IN  SubSeq(h, 1, Min(m, Len(h))) \o Rep(Junk, len - Min(m, Len(h)))

RECURSIVE _change_capacity(_)
_change_capacity(v) ==
  IF v.size > v.cap /\ v.cap > 0
  THEN MkVec(v.size, v.cap * 2, CopyInto(v.head, v.size, v.cap * 2))
  ELSE IF v.size > v.cap /\ v.cap = 0
       THEN _change_capacity(MkVec(v.size, 1, <<Junk>>))
       ELSE IF v.size > 0 /\ v.size * 4 <= v.cap
            THEN MkVec(v.size, v.cap \div 2, CopyInto(v.head, v.size, v.cap \div 2))
            ELSE IF v.size = 0
                 THEN MkVec(0, 0, <<>>)
                 ELSE v

\* Vector(std::initializer_list<T>).
VectorFromList(s) == IF Len(s) = 0 THEN EmptyVector ELSE MkVec(Len(s), Len(s), s)

\* Vector(const Vector<T>&).
VectorCopy(rhs) ==
  IF rhs.size = 0 THEN EmptyVector
  ELSE MkVec(rhs.size, rhs.cap, CopyInto(rhs.head, rhs.size, rhs.cap))

\* push_back: _size++, _change_capacity(), _head[_size-1] = value.
push_back(v, value) ==
  LET w == _change_capacity(MkVec(v.size + 1, v.cap, v.head))
  IN  MkVec(w.size, w.cap, [w.head EXCEPT ![w.size] = value])

\* pop_back: [ok |-> FALSE] is the ExceptionVector of an empty vector.
pop_back(v) ==
  IF v.size = 0 THEN [ok |-> FALSE, vec |-> v]
  ELSE [ok |-> TRUE, vec |-> _change_capacity(MkVec(v.size - 1, v.cap, v.head))]

\* The element loop of operator=: _head[i] = rhs._head[i] for i < _size.
\* A write at an index outside the buffer does not change it.
RECURSIVE AssignLoop(_, _, _, _)
AssignLoop(h, rh, i, n) ==
  IF i > n THEN h
  ELSE AssignLoop(IF i <= Len(h)
                  THEN [h EXCEPT ![i] = IF i <= Len(rh) THEN rh[i] ELSE Junk]
                  ELSE h,
                  rh, i + 1, n)

\* operator=: _size and _capacity are taken from rhs, _change_capacity() runs
\* on them with the receiver's old buffer, then the elements are written.
\* outside: some write went outside the buffer.
VectorAssign(v, rhs) ==
  LET w == _change_capacity(MkVec(rhs.size, rhs.cap, v.head))
  IN  [vec |-> MkVec(w.size, w.cap, AssignLoop(w.head, rhs.head, 1, w.size)),
       outside |-> w.size > Len(w.head)]

\* What reading _head[i] may return (i counted from 1).
Reads(v, i) ==
  IF i <= Len(v.head) /\ v.head[i] # Junk THEN {v.head[i]} ELSE AnyValue

\* The verdict of a relational operator on two unequal elements.
ElemVerdict(kind, p, q) ==
  IF kind = "<" THEN p < q
  ELSE IF kind = "<=" THEN p <= q
  ELSE IF kind = ">" THEN p > q
  ELSE p >= q

\* Its verdict when no unequal elements were found.
SizeVerdict(kind, l, r) ==
  IF kind = "<" THEN l.size < r.size
  ELSE IF kind = "<=" THEN l.size <= r.size
  ELSE IF kind = ">" THEN l.size > r.size
  ELSE l.size >= r.size

\* operator<, <=, >, >=: the loop runs to the larger of the two sizes.  The
\* result is the set of [ret, read]: the verdict and the number of leading
\* elements read from each vector.
RECURSIVE RelationalLoop(_, _, _, _, _)
RelationalLoop(kind, l, r, i, len) ==
  IF i > len THEN {[ret |-> SizeVerdict(kind, l, r), read |-> len]}
  ELSE UNION {IF pq[1] # pq[2]
              THEN {[ret |-> ElemVerdict(kind, pq[1], pq[2]), read |-> i]}
              ELSE RelationalLoop(kind, l, r, i + 1, len)
                : pq \in Reads(l, i) \X Reads(r, i)}

\* operator== and operator!=: unequal sizes decide at once.
RECURSIVE EqualityLoop(_, _, _, _)
EqualityLoop(kind, l, r, i) ==
  IF i > l.size THEN {[ret |-> (kind = "=="), read |-> l.size]}
  ELSE UNION {IF pq[1] # pq[2]
              THEN {[ret |-> (kind = "!="), read |-> i]}
              ELSE EqualityLoop(kind, l, r, i + 1)
                : pq \in Reads(l, i) \X Reads(r, i)}

VectorCompare(kind, l, r) ==
  IF kind \in {"==", "!="}
  THEN IF l.size # r.size
       THEN {[ret |-> (kind = "!="), read |-> 0]}
       ELSE EqualityLoop(kind, l, r, 1)
  ELSE RelationalLoop(kind, l, r, 1, Max(l.size, r.size))

CompareKinds == {"==", "!=", "<", "<=", ">", ">="}

InitVec ==
  /\ va \in {VectorFromList(s) : s \in LimbSeqs(Elem, MaxVecLen)}
  /\ vb \in {VectorFromList(s) : s \in LimbSeqs(Elem, MaxVecLen)}
  /\ arg = 0 /\ ret = 0 /\ ma = 0 /\ mb = 0 /\ ExtIdle
  /\ a = BigIntDefault /\ b = BigIntDefault /\ x = a /\ y = b
  /\ op = "init" /\ err = "none" /\ steps = 0
  /\ str = <<>> /\ out = <<>> /\ kc = BigIntDefault /\ kk = BigIntDefault

\* One more operation on the two vectors; none after a write outside a buffer.
VecStep(name) ==
  /\ steps < MaxSteps /\ err \in {"none", "ExceptionVector"}
  /\ op' = name /\ steps' = steps + 1
  /\ UNCHANGED <<a, b, x, y, str, out, kc, kk, ma, mb, ext>>

VecPushBack ==
  \E value \in Elem :
    /\ VecStep("push_back")
    /\ va' = push_back(va, value)
    /\ err' = "none"
    /\ UNCHANGED <<vb, arg, ret>>

VecPopBack ==
  /\ VecStep("pop_back")
  /\ \E r \in {pop_back(va)} :
       /\ va' = r.vec
       /\ err' = IF r.ok THEN "none" ELSE "ExceptionVector"
  /\ UNCHANGED <<vb, arg, ret>>

\* Vector<T> va(vb).
VecCopyConstruct ==
  /\ VecStep("copy")
  /\ va' = VectorCopy(vb)
  /\ err' = "none"
  /\ UNCHANGED <<vb, arg, ret>>

\* va = vb.  A write outside the buffer either ends the program or lands in
\* memory that is not the receiver's.
VecAssign ==
  /\ VecStep("=")
  /\ \E r \in {VectorAssign(va, vb)} :
       /\ va' = r.vec
       /\ IF r.outside
          THEN err' \in {"Crash", "WriteOutsideBuffer"}
          ELSE err' = "none"
  /\ UNCHANGED <<vb, arg, ret>>

\* ret = (va kind vb); arg is the number of leading elements read.
VecCompare ==
  \E kind \in CompareKinds :
    /\ VecStep(kind)
    /\ \E r \in VectorCompare(kind, va, vb) :
         /\ ret' = r.ret
         /\ arg' = r.read
    /\ err' = "none"
    /\ UNCHANGED <<va, vb>>

NextVec == VecPushBack \/ VecPopBack \/ VecCopyConstruct \/ VecAssign \/ VecCompare

SpecVec == InitVec /\ [][NextVec]_vars

\* The elements of a vector, and the lexicographical order on sequences.
Elements(v) == SubSeq(v.head, 1, Min(v.size, Len(v.head)))

RECURSIVE LexLess(_, _)
LexLess(s, t) ==
  IF Len(t) = 0 THEN FALSE
  ELSE IF Len(s) = 0 THEN TRUE
  ELSE IF s[1] # t[1] THEN s[1] < t[1]
  ELSE LexLess(Tail(s), Tail(t))

LexVerdict(kind, s, t) ==
  IF kind = "==" THEN s = t
  ELSE IF kind = "!=" THEN s # t
  ELSE IF kind = "<" THEN LexLess(s, t)
  ELSE IF kind = "<=" THEN ~LexLess(t, s)
  ELSE IF kind = ">" THEN LexLess(t, s)
  ELSE ~LexLess(s, t)

\* C19: copy construction and assignment a = b are deep copies for vectors of
\* any sizes and capacities: afterwards a has b's size and elements, and every
\* element write stayed inside a's allocated buffer.
C19_DeepCopy ==
  op \in {"=", "copy"} =>
    /\ err = "none"
    /\ va.size = vb.size
    /\ va.size <= Len(va.head)
    /\ Elements(va) = Elements(vb)

\* C20: the comparison operators ==, !=, <, <=, >, >= return the
\* lexicographical verdict for vectors of any two lengths, a proper prefix or an
\* empty vector included, and read only elements below each vector's own size.
C20_LexicographicalCompare ==
  op \in CompareKinds =>
    /\ ret = LexVerdict(op, Elements(va), Elements(vb))
    /\ arg <= va.size /\ arg <= vb.size

\* ------------------------------------------------------------------------
\* IndexedList<T>: a chain of blocks, each block a doubly linked list of
\* nodes.  The heap of nodes is a sequence indexed by node address; a deleted
\* node keeps its entry with live = FALSE.  The chain of blocks is a sequence
\* (a block's prev pointer is written but never read).
\* ------------------------------------------------------------------------

\* Largest list the clients build, and the number of calls they make.
MaxListLen == 4

MaxListOps == 5

NULL == 0

\* size_t, scaled: cur + block->size - 1 wraps when cur + block->size is 0.
SIZE_MAX == 255

SizeT(v) == v % (SIZE_MAX + 1)

ILNode(data, prev, next) ==
  [data |-> data, prev |-> prev, next |-> next, live |-> TRUE]

ILBlock == [head |-> NULL, size |-> 0]

\* IndexedList(): no element and one empty block.  strict says whether a
\* read or write of a deleted node is caught (a checked allocator) or goes
\* through to the stale node; uaf records that such an access has happened.
IndexedList ==
  [nodes |-> <<>>, blocks |-> <<ILBlock>>, total_size |-> 0,
   strict |-> TRUE, uaf |-> FALSE]

\* What dereferencing node pointer p does.
Access(st, p) ==
  IF p = NULL THEN "null"
  ELSE IF st.nodes[p].live \/ ~st.strict THEN "none"
  ELSE "freed"

\* The outcome of a call: the list after it, how it ended ("none", "throw",
\* "null" or "freed") and the value it returned.
Outcome(st, fault, val) == [st |-> st, fault |-> fault, val |-> val]

\* while(cur + block->size - 1 < index){ cur += block->size; block = block->next; }
RECURSIVE BlockWalk(_, _, _, _)
BlockWalk(st, index, cur, bi) ==
  IF bi > Len(st.blocks) THEN [fault |-> "null", bi |-> bi, cur |-> cur]
  ELSE IF SizeT(cur + st.blocks[bi].size - 1) < index
       THEN BlockWalk(st, index, cur + st.blocks[bi].size, bi + 1)
       ELSE [fault |-> "none", bi |-> bi, cur |-> cur]

\* while(cur + block->size < index){ cur += block->size; block = block->next; }
RECURSIVE InsertBlockWalk(_, _, _, _)
InsertBlockWalk(st, index, cur, bi) ==
  IF bi > Len(st.blocks) THEN [fault |-> "null", bi |-> bi, cur |-> cur]
  ELSE IF cur + st.blocks[bi].size < index
       THEN InsertBlockWalk(st, index, cur + st.blocks[bi].size, bi + 1)
       ELSE [fault |-> "none", bi |-> bi, cur |-> cur]

\* while(cur < bound){ node = node->next; cur++; }
RECURSIVE NodeWalk(_, _, _, _)
NodeWalk(st, node, cur, bound) ==
  IF cur < bound
  THEN IF Access(st, node) # "none"
       THEN [fault |-> Access(st, node), node |-> node]
       ELSE NodeWalk(st, st.nodes[node].next, cur + 1, bound)
  ELSE [fault |-> "none", node |-> node]

\* The node get and set reach for index.
Locate(st, index) ==
  IF index = 0 THEN [fault |-> "none", node |-> st.blocks[1].head]
  ELSE LET w == BlockWalk(st, index, 0, 1)
       IN  IF w.fault # "none" THEN [fault |-> w.fault, node |-> NULL]
           ELSE NodeWalk(st, st.blocks[w.bi].head, w.cur, index)

get(st, index) ==
  IF index > st.total_size THEN Outcome(st, "throw", 0)
  ELSE LET l == Locate(st, index)
       IN  IF l.fault # "none" THEN Outcome(st, l.fault, 0)
           ELSE IF Access(st, l.node) # "none"
                THEN Outcome(st, Access(st, l.node), 0)
                ELSE Outcome(st, "none", st.nodes[l.node].data)

set(st, index, data) ==
  IF index > st.total_size THEN Outcome(st, "throw", 0)
  ELSE LET l == Locate(st, index)
       IN  IF l.fault # "none" THEN Outcome(st, l.fault, 0)
           ELSE IF Access(st, l.node) # "none"
                THEN Outcome(st, Access(st, l.node), 0)
                ELSE Outcome([st EXCEPT !.nodes[l.node].data = data], "none", 0)

\* size_t tresh = sqrt(total_size); if(tresh < 2) tresh = 2;
Tresh(total) ==
  LET root == CHOOSE r \in 0..total : r * r <= total /\ (r + 1) * (r + 1) > total
  IN  IF root < 2 THEN 2 ELSE root

\* while(head != NULL and head->size == 0){ ...; delete head; head = temp; }
RECURSIVE DropEmptyHead(_)
DropEmptyHead(blocks) ==
  IF blocks # <<>> /\ Head(blocks).size = 0 THEN DropEmptyHead(Tail(blocks))
  ELSE blocks

\* while(node->next != NULL) node = node->next;  (fuel bounds the walk
\* through stale nodes).
RECURSIVE LastNode(_, _, _)
LastNode(st, node, fuel) ==
  IF Access(st, node) # "none" THEN [fault |-> Access(st, node), node |-> node]
  ELSE IF fuel = 0 THEN [fault |-> "freed", node |-> node]
  ELSE IF st.nodes[node].next # NULL THEN LastNode(st, st.nodes[node].next, fuel - 1)
  ELSE [fault |-> "none", node |-> node]

\* The block chain with the block at position bi replaced by the blocks in
\* seq, and with the block at position bi removed.
ReplaceBlock(blocks, bi, seq) ==
  SubSeq(blocks, 1, bi - 1) \o seq \o SubSeq(blocks, bi + 1, Len(blocks))

\* The while(block != NULL) loop of balance, at the block in position bi.
RECURSIVE BalanceLoop(_, _, _)
BalanceLoop(st, bi, tresh) ==
  IF bi > Len(st.blocks) THEN Outcome(st, "none", 0)
  ELSE
    LET block == st.blocks[bi] IN
    IF block.size >= 2 * tresh
    THEN \* split the block after its first tresh nodes
      LET w == NodeWalk(st, block.head, 1, tresh) IN
      IF w.fault # "none" THEN Outcome(st, w.fault, 0)
      ELSE IF Access(st, w.node) # "none" THEN Outcome(st, Access(st, w.node), 0)
      ELSE
        LET nx == st.nodes[w.node].next IN
        IF Access(st, nx) # "none" THEN Outcome(st, Access(st, nx), 0)
        ELSE
          LET new_block == [head |-> nx, size |-> block.size - tresh]
              nodes2 == [st.nodes EXCEPT ![nx].prev = NULL, ![w.node].next = NULL]
              blocks2 == ReplaceBlock(st.blocks, bi,
                                      <<[block EXCEPT !.size = tresh], new_block>>)
          IN  BalanceLoop([st EXCEPT !.nodes = nodes2, !.blocks = blocks2],
                          bi + 1, tresh)
    ELSE IF bi < Len(st.blocks) /\ st.blocks[bi + 1].size = 0
    THEN \* delete the empty next block
      BalanceLoop([st EXCEPT !.blocks = ReplaceBlock(st.blocks, bi + 1, <<>>)],
                  bi, tresh)
    ELSE IF bi < Len(st.blocks) /\ block.size + st.blocks[bi + 1].size < tresh
    THEN \* append the next block's nodes to this block
      LET del == st.blocks[bi + 1]
          l == LastNode(st, block.head, Len(st.nodes))
      IN
      IF l.fault # "none" THEN Outcome(st, l.fault, 0)
      ELSE IF del.head # NULL /\ Access(st, del.head) # "none"
      THEN Outcome(st, Access(st, del.head), 0)
      ELSE
        LET nodes1 == [st.nodes EXCEPT ![l.node].next = del.head]
            nodes2 == IF del.head # NULL
                      THEN [nodes1 EXCEPT ![del.head].prev = l.node]
                      ELSE nodes1
            merged == [block EXCEPT !.size = block.size + del.size]
            blocks2 == ReplaceBlock(ReplaceBlock(st.blocks, bi + 1, <<>>),
                                    bi, <<merged>>)
        IN  BalanceLoop([st EXCEPT !.nodes = nodes2, !.blocks = blocks2],
                        bi, tresh)
    ELSE BalanceLoop(st, bi + 1, tresh)

balance(st) ==
  LET blocks == DropEmptyHead(st.blocks) IN
  IF blocks = <<>> THEN Outcome([st EXCEPT !.blocks = <<ILBlock>>], "none", 0)
  ELSE BalanceLoop([st EXCEPT !.blocks = blocks], 1, Tresh(st.total_size))

\* The list after block bi has gained (d = 1) or lost (d = -1) a node:
\* block->size and total_size change, then balance() runs.
Resized(st, bi, d) ==
  balance([st EXCEPT !.blocks[bi].size = @ + d, !.total_size = @ + d])

insert(st, index, data) ==
  IF index > st.total_size THEN Outcome(st, "throw", 0)
  ELSE
    LET fresh == Len(st.nodes) + 1 IN
    IF index = 0
    THEN Resized([st EXCEPT
                    !.nodes = Append(@, ILNode(data, NULL, st.blocks[1].head)),
                    !.blocks[1].head = fresh], 1, 1)
    ELSE
      LET w == InsertBlockWalk(st, index, 0, 1) IN
      IF w.fault # "none" THEN Outcome(st, w.fault, 0)
      ELSE
        LET n == NodeWalk(st, st.blocks[w.bi].head, w.cur, index - 1) IN
        IF n.fault # "none" THEN Outcome(st, n.fault, 0)
        ELSE IF Access(st, n.node) # "none" THEN Outcome(st, Access(st, n.node), 0)
        ELSE
          LET after == st.nodes[n.node].next
              nodes1 == Append([st.nodes EXCEPT ![n.node].next = fresh],
                               ILNode(data, n.node, after))
          IN
          IF after = NULL THEN Resized([st EXCEPT !.nodes = nodes1], w.bi, 1)
          ELSE IF Access(st, after) # "none" THEN Outcome(st, Access(st, after), 0)
          ELSE Resized([st EXCEPT !.nodes = [nodes1 EXCEPT ![after].prev = fresh]],
                       w.bi, 1)

\* Removal of the head node of block bi: lines 188-192 and 201-205.
RemoveHead(st, bi) ==
  LET first == st.blocks[bi].head IN
  IF Access(st, first) # "none" THEN Outcome(st, Access(st, first), 0)
  ELSE
    LET node == st.nodes[first].next
        nodes1 == [st.nodes EXCEPT ![first].live = FALSE]
        st1 == [st EXCEPT !.blocks[bi].head = node]
    IN
    IF node = NULL THEN Resized([st1 EXCEPT !.nodes = nodes1], bi, 0 - 1)
    ELSE IF Access(st, node) # "none" THEN Outcome(st, Access(st, node), 0)
    ELSE Resized([st1 EXCEPT !.nodes = [nodes1 EXCEPT ![node].prev = NULL]],
                 bi, 0 - 1)

\* Removal of a node that is not the head of its block: lines 208-220.
Unlink(st, bi, node) ==
  IF Access(st, node) # "none" THEN Outcome(st, Access(st, node), 0)
  ELSE
    LET p == st.nodes[node].prev
        n == st.nodes[node].next
    IN
    IF p # NULL /\ Access(st, p) # "none" THEN Outcome(st, Access(st, p), 0)
    ELSE IF n # NULL /\ Access(st, n) # "none" THEN Outcome(st, Access(st, n), 0)
    ELSE
      LET nodes1 == IF p # NULL THEN [st.nodes EXCEPT ![p].next = n] ELSE st.nodes
          nodes2 == IF n # NULL THEN [nodes1 EXCEPT ![n].prev = p] ELSE nodes1
      IN  Resized([st EXCEPT !.nodes = [nodes2 EXCEPT ![node].live = FALSE]],
                  bi, 0 - 1)

remove(st, index) ==
  IF index > st.total_size THEN Outcome(st, "throw", 0)
  ELSE IF index = 0 THEN RemoveHead(st, 1)
  ELSE
    LET w == BlockWalk(st, index, 0, 1) IN
    IF w.fault # "none" THEN Outcome(st, w.fault, 0)
    ELSE IF w.cur = index THEN RemoveHead(st, w.bi)
    ELSE
      LET n == NodeWalk(st, st.blocks[w.bi].head, w.cur, index) IN
      IF n.fault # "none" THEN Outcome(st, n.fault, 0)
      ELSE Unlink(st, w.bi, n.node)

\* The plain sequence after the same call: insert at position index shifts the
\* later elements right, remove shifts them left; a call the contract
\* rejects changes nothing.
PlainCall(name, s, index, data) ==
  IF name = "insert" /\ index <= Len(s)
  THEN SubSeq(s, 1, index) \o <<data>> \o SubSeq(s, index + 1, Len(s))
  ELSE IF name = "remove" /\ index < Len(s)
  THEN SubSeq(s, 1, index) \o SubSeq(s, index + 2, Len(s))
  ELSE IF name = "set" /\ index < Len(s)
  THEN [s EXCEPT ![index + 1] = data]
  ELSE s

RunList(name, st, index, data) ==
  IF name = "get" THEN get(st, index)
  ELSE IF name = "set" THEN set(st, index, data)
  ELSE IF name = "insert" THEN insert(st, index, data)
  ELSE remove(st, index)

InitList ==
  /\ il = IndexedList /\ ref = <<>>
  /\ dj = NoObject /\ hs = NoObject /\ call = NoObject /\ frame = NoObject
  /\ arg = 0 /\ ret = 0 /\ ma = 0 /\ mb = 0
  /\ va = EmptyVector /\ vb = EmptyVector
  /\ a = BigIntDefault /\ b = BigIntDefault /\ x = a /\ y = b
  /\ op = "init" /\ err = "none" /\ steps = 0
  /\ str = <<>> /\ out = <<>> /\ kc = BigIntDefault /\ kk = BigIntDefault

\* How a call that ended with r leaves the list: a thrown ILException leaves
\* it as it was and the client goes on; a null dereference ends the run.
Settle(r) ==
  \/ /\ r.fault = "none"
     /\ il' = [r.st EXCEPT !.strict = TRUE] /\ err' = "none" /\ ret' = r.val
  \/ /\ r.fault = "throw"
     /\ il' = il /\ err' = "OutOfRange" /\ ret' = 0
  \/ /\ r.fault = "null"
     /\ il' = il /\ err' = "NullDereference" /\ ret' = 0

\* One call on the list.  A call that touches a deleted node is either
\* stopped there by the allocator, or runs on with the node's stale contents.
ListCall(name, index, data) ==
  /\ steps < MaxListOps /\ err \in {"none", "OutOfRange"}
  /\ LET r == RunList(name, il, index, data) IN
     IF r.fault # "freed" THEN Settle(r)
     ELSE \/ /\ il' = il /\ err' = "UseAfterFree" /\ ret' = 0
          \/ Settle(RunList(name, [il EXCEPT !.strict = FALSE, !.uaf = TRUE],
                            index, data))
  /\ ref' = PlainCall(name, ref, index, data)
  /\ call' = [index |-> index, data |-> data, size |-> Len(ref), before |-> il]
  /\ op' = name /\ steps' = steps + 1
  /\ UNCHANGED <<a, b, x, y, str, out, kc, kk, arg, ma, mb, va, vb, dj, hs, frame>>

ListGet == \E index \in 0..(Len(ref) + 1) : ListCall("get", index, 0)

ListSet == \E index \in 0..(Len(ref) + 1), data \in Elem : ListCall("set", index, data)

ListInsert ==
  /\ Len(ref) < MaxListLen
  /\ \E index \in 0..(Len(ref) + 1), data \in Elem : ListCall("insert", index, data)

ListRemove == \E index \in 0..(Len(ref) + 1) : ListCall("remove", index, 0)

NextList == ListGet \/ ListSet \/ ListInsert \/ ListRemove

SpecList == InitList /\ [][NextList]_vars

\* C21: get, set and remove throw whenever index >= size() (so on every
\* call on an empty list) and insert throws whenever index > size(); the
\* throwing call leaves the list as it was and dereferences no null or
\* past-the-end node.
C21_OutOfBoundsThrows ==
  ((op \in {"get", "set", "remove"} /\ call.index >= call.size)
     \/ (op = "insert" /\ call.index > call.size))
    => (err = "OutOfRange" /\ il = call.before)

\* C22: after any sequence of in-bounds insert, remove and set calls, size()
\* is the length of the plain sequence built by the same calls and get(i)
\* returns its i-th element, with no access to a deleted node on the way.
C22_MatchesPlainSequence ==
  ((op \in {"remove", "set"} /\ call.index < call.size)
     \/ (op = "insert" /\ call.index <= call.size)) =>
    /\ err = "none" /\ ~il.uaf
    /\ il.total_size = Len(ref)
    /\ \A i \in 0..(Len(ref) - 1) :
         \A g \in {get(il, i)} : g.fault = "none" /\ g.val = ref[i + 1]

\* ------------------------------------------------------------------------
\* GraphAlgorithms::Dijkstra.  The object holds the vectors distance and
\* prev; nodes are numbered from 0, entry v of a vector is at position v + 1.
\* ------------------------------------------------------------------------

\* Most nodes of a graph the clients pass.
MaxNodes == 3

\* LLONG_MAX and the width of the int that calculate returns, scaled.
LLONG_MAX == 32767

INT_MAX == 127

\* Conversion of an int64_t to int keeps the low bits.
ToInt(v) == ((v + INT_MAX + 1) % (2 * (INT_MAX + 1))) - (INT_MAX + 1)

\* std::vector::resize(n, fill): existing entries keep their values.
Resize(s, n, fill) ==
  IF Len(s) >= n THEN SubSeq(s, 1, n) ELSE s \o Rep(fill, n - Len(s))

Dijkstra == [distance |-> <<>>, prev |-> <<>>]

\* pq.top() under std::greater: the least pair (cost, node).  The queue is a
\* set: a pair is pushed only when it lowers the node's distance, so no pair
\* is pushed twice.
Top(pq) ==
  CHOOSE p \in pq : \A q \in pq : p[1] < q[1] \/ (p[1] = q[1] /\ p[2] <= q[2])

\* for(std::pair<int,int>& u : adj[node]) over the remaining edges.
RECURSIVE Relax(_, _, _, _, _, _)
Relax(obj, pq, edges, node, cost, find_path) ==
  IF edges = <<>> THEN [obj |-> obj, pq |-> pq]
  ELSE
    LET u == Head(edges) IN
    IF obj.distance[u[1] + 1] > cost + u[2]
    THEN Relax([distance |-> [obj.distance EXCEPT ![u[1] + 1] = cost + u[2]],
                prev |-> IF find_path
                         THEN [obj.prev EXCEPT ![u[1] + 1] = node]
                         ELSE obj.prev],
               pq \cup {<<cost + u[2], u[1]>>}, Tail(edges), node, cost, find_path)
    ELSE Relax(obj, pq, Tail(edges), node, cost, find_path)

\* while(!pq.empty())
RECURSIVE QueueLoop(_, _, _, _, _)
QueueLoop(obj, pq, visited, adj, find_path) ==
  IF pq = {} THEN obj
  ELSE
    LET top == Top(pq) IN
    IF top[2] \in visited
    THEN QueueLoop(obj, pq \ {top}, visited, adj, find_path)
    ELSE LET r == Relax(obj, pq \ {top}, adj[top[2] + 1], top[2], top[1], find_path)
         IN  QueueLoop(r.obj, r.pq, visited \cup {top[2]}, adj, find_path)

\* calculate: outside says that prev[source] = -1 was written outside the
\* buffer of prev.
calculate(obj, adj, source, target, find_path) ==
  LET n == Len(adj)
      distance1 == [Resize(obj.distance, n, LLONG_MAX) EXCEPT ![source + 1] = 0]
      prev1 == IF find_path THEN Resize(obj.prev, n, 0) ELSE obj.prev
  IN
  IF source >= Len(prev1)
  THEN [obj |-> [distance |-> distance1, prev |-> prev1], outside |-> TRUE, val |-> 0]
  ELSE
    LET o == QueueLoop([distance |-> distance1,
                        prev |-> [prev1 EXCEPT ![source + 1] = 0 - 1]],
                       {<<0, source>>}, {}, adj, find_path)
    IN  [obj |-> o, outside |-> FALSE, val |-> ToInt(o.distance[target + 1])]

\* Edge costs of the graphs the clients pass: the direct edge over a node
\* costs more than the two edges through it.
EdgeCost(u, v) == IF v = u + 1 THEN 1 ELSE IF v > u THEN 3 ELSE 2

\* adj[u] with an edge to every node of targets, in increasing order.
RECURSIVE AdjList(_, _)
AdjList(u, targets) ==
  IF targets = {} THEN <<>>
  ELSE LET v == CHOOSE t \in targets : \A t2 \in targets : t <= t2
       IN  <<<<v, EdgeCost(u, v)>>>> \o AdjList(u, targets \ {v})

\* The graphs on n nodes whose first k adjacency lists are filled in.
RECURSIVE GraphsOn(_, _)
GraphsOn(n, k) ==
  IF k = 0 THEN {<<>>}
  ELSE {Append(g, AdjList(k - 1, t)) :
          g \in GraphsOn(n, k - 1), t \in SUBSET ((0..(n - 1)) \ {k - 1})}

Graphs == UNION {GraphsOn(n, n) : n \in 2..MaxNodes}

InitDijkstra ==
  /\ dj = Dijkstra
  /\ il = NoObject /\ ref = NoObject /\ hs = NoObject /\ call = NoObject
  /\ frame = NoObject
  /\ arg = 0 /\ ret = 0 /\ ma = 0 /\ mb = 0
  /\ va = EmptyVector /\ vb = EmptyVector
  /\ a = BigIntDefault /\ b = BigIntDefault /\ x = a /\ y = b
  /\ op = "init" /\ err = "none" /\ steps = 0
  /\ str = <<>> /\ out = <<>> /\ kc = BigIntDefault /\ kk = BigIntDefault

\* One call of calculate on the object, with any graph, source and target.
Calculate(find_path) ==
  /\ steps < MaxSteps /\ err = "none"
  /\ \E adj \in Graphs :
       \E source \in 0..(Len(adj) - 1), target \in 0..(Len(adj) - 1) :
         \E r \in {calculate(dj, adj, source, target, find_path)} :
           /\ dj' = r.obj /\ ret' = r.val
           /\ IF r.outside THEN err' \in {"Crash", "WriteOutsideBuffer"}
              ELSE err' = "none"
           /\ call' = [adj |-> adj, source |-> source, target |-> target,
                       find_path |-> find_path]
  /\ op' = "calculate" /\ steps' = steps + 1
  /\ UNCHANGED <<a, b, x, y, str, out, kc, kk, arg, ma, mb, va, vb, il, ref, hs, frame>>

CalculateCost == Calculate(FALSE)

CalculateWithPath == Calculate(TRUE)

NextDijkstra == CalculateCost \/ CalculateWithPath

SpecDijkstra == InitDijkstra /\ [][NextDijkstra]_vars

\* Cost of a cheapest path from source to every node using at most k edges
\* (LLONG_MAX: none), by definition of a path.
RECURSIVE PathCosts(_, _, _)
PathCosts(adj, source, k) ==
  IF k = 0
  THEN [v \in 0..(Len(adj) - 1) |-> IF v = source THEN 0 ELSE LLONG_MAX]
  ELSE
    LET d == PathCosts(adj, source, k - 1)
        Into(v) == UNION {{d[u] + adj[u + 1][i][2] :
                             i \in {j \in 1..Len(adj[u + 1]) : adj[u + 1][j][1] = v}} :
                          u \in {w \in 0..(Len(adj) - 1) : d[w] # LLONG_MAX}}
    IN  [v \in 0..(Len(adj) - 1) |->
           IF \E c \in Into(v) : c < d[v]
           THEN CHOOSE c \in Into(v) : \A c2 \in Into(v) : c <= c2
           ELSE d[v]]

\* C23: every call of calculate, with either value of find_path and on a
\* fresh or a used object, returns the cost of a shortest path from source
\* to target and leaves distance[v] equal to the shortest-path cost of every
\* reachable node v.
C23_ShortestPaths ==
  op = "calculate" =>
    \A d \in {PathCosts(call.adj, call.source, Len(call.adj))} :
      /\ err = "none"
      /\ \A v \in 0..(Len(call.adj) - 1) :
           d[v] # LLONG_MAX => dj.distance[v + 1] = d[v]
      /\ d[call.target] # LLONG_MAX => ret = d[call.target]

\* ------------------------------------------------------------------------
\* Hash: double-modulus rolling hash over stored strings.  A string is the
\* sequence of its letters' offsets from 'a'; entry i of a vector is at
\* position i + 1.  The int32_t width, the moduli and the alphabet are scaled
\* together: as in the source, 2 * MOD fits an int32_t and MOD * base does not.
\* ------------------------------------------------------------------------

\* Longest string the clients store, and the number of calls they make.
MaxHashLen == 3

MaxHashOps == 3

alphabet_size == 2

INT32_MAX == 255

MODS == <<101, 103, 107, 109, 113>>

\* Runs of values rng() returns to the constructor: one per shuffle step,
\* then the draws for base1, base2, MOD1, MOD2.
RngRuns == {<<0, 0, 0, 0, 0>>, <<1, 9, 9, 4, 4>>, <<0, 9, 4, 0, 9>>, <<1, 4, 0, 9, 0>>}

\* The value an int32_t holds after an arithmetic result v wrapped.
Wrap32(v) == ((v + INT32_MAX + 1) % (2 * (INT32_MAX + 1))) - (INT32_MAX + 1)

Fits32(v) == v >= 0 - (INT32_MAX + 1) /\ v <= INT32_MAX

\* shuffle_chars: shuffled_chars[i] = i + 1, then one swap per draw.
RECURSIVE ShuffleLoop(_, _, _)
ShuffleLoop(chars, i, draws) ==
  IF i >= alphabet_size - 1 THEN chars
  ELSE LET j == draws[i + 1] % (alphabet_size - i)
       IN  ShuffleLoop([chars EXCEPT ![i + 1] = chars[i + j + 1],
                                     ![i + j + 1] = chars[i + 1]],
                       i + 1, draws)

RECURSIVE Iota(_)
Iota(n) == IF n = 0 THEN <<>> ELSE Append(Iota(n - 1), n)

shuffle_chars(draws) == ShuffleLoop(Iota(alphabet_size), 0, draws)

\* Hash(): draws is the run of values rng() returns.
HashNew(draws) ==
  LET d == SubSeq(draws, alphabet_size, Len(draws))
      b1 == (d[1] % 10) + alphabet_size + 1
      b2 == (d[2] % 10) + alphabet_size + 1
      m1 == d[3] % Len(MODS)
      m2 == d[4] % Len(MODS)
  IN  [shuffled_chars |-> shuffle_chars(draws),
       base1 |-> b1,
       base2 |-> IF b1 = b2 THEN b1 + 1 ELSE b2,
       MOD1 |-> MODS[m1 + 1],
       MOD2 |-> MODS[(IF m1 = m2 THEN (m1 + 1) % Len(MODS) ELSE m2) + 1],
       string_count |-> 0, max_string_length |-> 1,
       pow1 |-> <<1>>, pow2 |-> <<1>>,
       hash1 |-> <<>>, hash2 |-> <<>>, data |-> <<>>]

\* build_hash: the prefix hashes of s, and whether hash[i-1]*base + c left
\* the int range (signed overflow) on the way.
RECURSIVE build_hash(_, _, _, _, _)
build_hash(s, mod, hbase, chars, i) ==
  IF i = 0 THEN [hash |-> <<chars[s[1] + 1]>>, ub |-> FALSE]
  ELSE
    LET h == build_hash(s, mod, hbase, chars, i - 1)
        product == h.hash[i] * hbase
        sum == Wrap32(product) + chars[s[i + 1] + 1]
    IN  [hash |-> Append(h.hash, CMod(Wrap32(sum), mod)),
         ub |-> h.ub \/ ~Fits32(product) \/ ~Fits32(sum)]

\* calculate_pows: po grows to max_len entries.
RECURSIVE calculate_pows(_, _, _, _)
calculate_pows(po, hbase, mod, max_len) ==
  IF Len(po) >= max_len THEN SubSeq(po, 1, max_len)
  ELSE calculate_pows(Append(po, (po[Len(po)] * hbase) % mod), hbase, mod, max_len)

\* while(s.length() > max_string_length){ max_string_length *= 2; ... }
RECURSIVE GrowPows(_, _)
GrowPows(h, len) ==
  IF len > h.max_string_length
  THEN GrowPows([h EXCEPT
                   !.max_string_length = 2 * @,
                   !.pow1 = calculate_pows(@, h.base1, h.MOD1, 2 * h.max_string_length),
                   !.pow2 = calculate_pows(@, h.base2, h.MOD2, 2 * h.max_string_length)],
                len)
  ELSE h

\* return int64_t(first) * (1ll<<31) + second
Combine(first, second) == first * (INT32_MAX + 1) + second

\* push_back of a non-empty string (build_hash asserts s.size() > 0).
HashPush(h, s) ==
  LET g == GrowPows(h, Len(s))
      h1 == build_hash(s, g.MOD1, g.base1, g.shuffled_chars, Len(s) - 1)
      h2 == build_hash(s, g.MOD2, g.base2, g.shuffled_chars, Len(s) - 1)
  IN  [obj |-> [g EXCEPT !.hash1 = Append(@, h1.hash), !.hash2 = Append(@, h2.hash),
                         !.data = Append(@, s), !.string_count = @ + 1],
       fault |-> IF h1.ub \/ h2.ub THEN "overflow" ELSE "none",
       val |-> Combine(h1.hash[Len(s)], h2.hash[Len(s)])]

HashPop(h) ==
  IF h.string_count = 0 THEN [obj |-> h, fault |-> "throw", val |-> 0]
  ELSE LET n == Len(h.hash1)
           last1 == h.hash1[n]
           last2 == h.hash2[n]
       IN  [obj |-> [h EXCEPT !.hash1 = SubSeq(@, 1, n - 1),
                              !.hash2 = SubSeq(@, 1, n - 1),
                              !.data = SubSeq(@, 1, n - 1),
                              !.string_count = @ - 1],
            fault |-> "none",
            val |-> Combine(last1[Len(last1)], last2[Len(last2)])]

\* calc_hash with i and j already converted to size_t: outside says that an
\* entry outside hash or po was read.
calc_hash(hash, po, i, j, mod) ==
  IF i = 0 THEN [outside |-> FALSE, val |-> hash[j + 1]]
  ELSE
    LET e == SizeT(j - i + 1) IN
    IF i - 1 >= Len(hash) \/ e >= Len(po) THEN [outside |-> TRUE, val |-> 0]
    ELSE [outside |-> FALSE,
          val |-> CMod(CMod(hash[j + 1] - hash[i] * po[e + 1], mod) + mod, mod)]

get_pair(h, idx, i, j) ==
  IF idx >= Len(h.hash1) \/ i < 0 \/ SizeT(j) >= Len(h.hash1[idx + 1])
  THEN [fault |-> "throw", val |-> <<0, 0>>]
  ELSE
    LET c1 == calc_hash(h.hash1[idx + 1], h.pow1, i, j, h.MOD1)
        c2 == calc_hash(h.hash2[idx + 1], h.pow2, i, j, h.MOD2)
    IN  [fault |-> IF c1.outside \/ c2.outside THEN "outside" ELSE "none",
         val |-> <<c1.val, c2.val>>]

\* The binary search of compare_substring for the longest common prefix.
RECURSIVE LcpSearch(_, _, _, _, _, _, _, _)
LcpSearch(h, idx1, i1, idx2, i2, left, right, lcp) ==
  IF left > right THEN lcp
  ELSE
    LET mid == (left + right) \div 2 IN
    IF get_pair(h, idx1, i1, i1 + mid - 1) = get_pair(h, idx2, i2, i2 + mid - 1)
    THEN LcpSearch(h, idx1, i1, idx2, i2, mid + 1, right, Max(lcp, mid))
    ELSE LcpSearch(h, idx1, i1, idx2, i2, left, mid - 1, lcp)

compare_substring(h, idx1, i1, j1, idx2, i2, j2) ==
  IF idx1 < 0 \/ idx1 >= h.string_count \/ idx2 < 0 \/ idx2 >= h.string_count
  THEN [fault |-> "throw", val |-> 0]
  ELSE IF i1 < 0 \/ j1 < i1 \/ j1 >= Len(h.data[idx1 + 1])
          \/ i2 < 0 \/ j2 < i2 \/ j2 >= Len(h.data[idx2 + 1])
  THEN [fault |-> "throw", val |-> 0]
  ELSE
    LET lcp == LcpSearch(h, idx1, i1, idx2, i2, 1,
                         Min(j1 - i1 + 1, j2 - i2 + 1), 0)
    IN  [fault |-> "none",
         val |-> IF i1 + lcp - 1 = j1 /\ i2 + lcp - 1 = j2 THEN 0
                 ELSE IF i1 + lcp - 1 = j1 THEN 0 - 1
                 ELSE IF i2 + lcp - 1 = j2 THEN 1
                 ELSE IF h.data[idx1 + 1][i1 + lcp + 1] < h.data[idx2 + 1][i2 + lcp + 1]
                      THEN 0 - 1
                 ELSE 1]

\* Most strings the clients keep stored at a time.
MaxStrings == 2

HashStrings == LimbSeqs(0..(alphabet_size - 1), MaxHashLen) \ {<<>>}

InitHash ==
  /\ hs \in {HashNew(draws) : draws \in RngRuns}
  /\ il = NoObject /\ ref = NoObject /\ dj = NoObject /\ call = NoObject
  /\ frame = NoObject
  /\ arg = 0 /\ ret = 0 /\ ma = 0 /\ mb = 0
  /\ va = EmptyVector /\ vb = EmptyVector
  /\ a = BigIntDefault /\ b = BigIntDefault /\ x = a /\ y = b
  /\ op = "init" /\ err = "none" /\ steps = 0
  /\ str = <<>> /\ out = <<>> /\ kc = BigIntDefault /\ kk = BigIntDefault

\* The client makes one more call; none after a trap or a read outside a
\* buffer.
HashReady == steps < MaxHashOps /\ err \in {"none", "OutOfRange"}

HashStep(name, args) ==
  /\ op' = name /\ call' = args /\ steps' = steps + 1
  /\ UNCHANGED <<a, b, x, y, str, out, kc, kk, arg, ma, mb, va, vb, il, ref, dj, frame>>

\* push_back(s).  A signed overflow in build_hash either traps or leaves the
\* wrapped values in the table.
HashPushBack ==
  /\ HashReady
  /\ hs.string_count < MaxStrings
  /\ \E s \in HashStrings :
       \E r \in {HashPush(hs, s)} :
         /\ HashStep("push_back", [s |-> s, count |-> hs.string_count])
         /\ \/ /\ hs' = r.obj /\ ret' = r.val /\ err' = "none"
            \/ /\ r.fault = "overflow"
               /\ hs' = hs /\ ret' = 0 /\ err' = "SignedOverflow"

HashPopBack ==
  /\ HashReady
  /\ \E r \in {HashPop(hs)} :
    /\ HashStep("pop_back", [count |-> hs.string_count])
    /\ hs' = r.obj /\ ret' = r.val
    /\ err' = IF r.fault = "throw" THEN "OutOfRange" ELSE "none"

HashGetPair ==
  /\ HashReady
  /\ \E idx \in 0..hs.string_count, i \in (0 - 1)..MaxHashLen, j \in (0 - 1)..MaxHashLen :
    \E r \in {get_pair(hs, idx, i, j)} :
      /\ HashStep("get_pair", [idx |-> idx, i |-> i, j |-> j])
      /\ hs' = hs /\ ret' = r.val
      /\ IF r.fault = "throw" THEN err' = "OutOfRange"
         ELSE IF r.fault = "outside" THEN err' \in {"Crash", "ReadOutsideBuffer"}
         ELSE err' = "none"

\* compare_substring on two valid ranges of stored strings.
HashCompare ==
  /\ HashReady
  /\ \E idx1 \in 0..(hs.string_count - 1), idx2 \in 0..(hs.string_count - 1) :
    \E j1 \in 0..(Len(hs.data[idx1 + 1]) - 1), j2 \in 0..(Len(hs.data[idx2 + 1]) - 1) :
      \E i1 \in 0..j1, i2 \in 0..j2 :
        \E r \in {compare_substring(hs, idx1, i1, j1, idx2, i2, j2)} :
          /\ HashStep("compare_substring",
                      [idx1 |-> idx1, i1 |-> i1, j1 |-> j1,
                       idx2 |-> idx2, i2 |-> i2, j2 |-> j2])
          /\ hs' = hs /\ ret' = r.val
          /\ err' = IF r.fault = "throw" THEN "OutOfRange" ELSE "none"

NextHash == HashPushBack \/ HashPopBack \/ HashGetPair \/ HashCompare

SpecHash == InitHash /\ [][NextHash]_vars

\* Substring [i..j] of stored string idx.
Substring(h, idx, i, j) == SubSeq(h.data[idx + 1], i + 1, j + 1)

\* C24: compare_substring returns -1, 0 or +1 according to the
\* lexicographic order of the two substrings; equal substrings, at whatever
\* offsets and in whatever strings, have equal get_pair hashes and compare
\* as 0.
C24_CompareIsLexicographic ==
  op = "compare_substring" =>
    \A s \in {Substring(hs, call.idx1, call.i1, call.j1)} :
      \A t \in {Substring(hs, call.idx2, call.i2, call.j2)} :
        /\ err = "none"
        /\ ret = (IF s = t THEN 0 ELSE IF LexLess(s, t) THEN 0 - 1 ELSE 1)
        /\ s = t => get_pair(hs, call.idx1, call.i1, call.j1).val
                      = get_pair(hs, call.idx2, call.i2, call.j2).val

\* C25: get_pair throws std::out_of_range for an invalid string index and
\* for an invalid range (i < 0, j >= length, or i > j) and otherwise returns
\* reading only entries inside the tables; pop_back throws when no string is
\* stored.
C25_InvalidArgumentsThrow ==
  /\ op = "get_pair" =>
       IF call.idx >= hs.string_count \/ call.i < 0 \/ call.i > call.j
          \/ call.j >= Len(hs.data[call.idx + 1])
       THEN err = "OutOfRange"
       ELSE err = "none"
  /\ (op = "pop_back" /\ call.count = 0) => err = "OutOfRange"

\* ------------------------------------------------------------------------
\* operator/= one step at a time: the loop over the dividend limbs and, inside
\* it, the binary search for the quotient limb.  frame holds the locals
\* dividend, divisor, quotient, current, i, l and r; pc is the position in
\* the loop body and probes counts the iterations of the running search.
\* ------------------------------------------------------------------------

\* Most limbs of a dividend or divisor.
MaxDivLimbs == 2

DivOperands == LimbSeqs({0, 3, base - 1}, MaxDivLimbs)

\* One iteration of  while (l <= r)  with the comparison t < current in
\* place of t <= current.
Probe_StrictCompare(l, r, divisor, current) ==
  Bind(ShiftRight(PlusAssign(l, r), 1),
       LAMBDA m :
         IF Less(TimesAssign(divisor, m), current)
         THEN [l |-> PlusAssign(m, Big(1)), r |-> r]
         ELSE [l |-> l, r |-> MinusAssign(m, Big(1))])

\* One iteration of  while (l <= r): m = (l + r) >> 1; t = divisor * m; then
\* l = m + 1 or r = m - 1.
Probe(l, r, divisor, current) ==
  Bind(ShiftRight(PlusAssign(l, r), 1),
       LAMBDA m :
         IF LessEq(TimesAssign(divisor, m), current)
         THEN [l |-> PlusAssign(m, Big(1)), r |-> r]
         ELSE [l |-> l, r |-> MinusAssign(m, Big(1))])

InitDiv ==
  /\ \E s \in BOOLEAN, n \in DivOperands : x = MkBig(s, n)
  /\ \E n \in DivOperands : y = MkBig(TRUE, n)
  /\ a = x /\ b = y
  /\ op = "init" /\ err = "none" /\ steps = 0
  /\ Idle

\* The part of operator/= before the loop.
DivEnter ==
  /\ op = "init"
  /\ IF is_zero(y)
     THEN /\ err' = "DivisionByZero" /\ op' = "/= threw"
          /\ UNCHANGED <<a, frame>>
     ELSE IF Less(abs(x), abs(y))
     THEN /\ a' = MkBig(TRUE, <<0>>) /\ op' = "/= returned"
          /\ UNCHANGED <<err, frame>>
     ELSE /\ frame' = [pc |-> IF Len(x.num) >= 1 THEN "insert" ELSE "finish",
                       dividend |-> abs(x), divisor |-> abs(y),
                       quotient |-> Big(0), current |-> Big(0),
                       i |-> Len(x.num), l |-> Big(0), r |-> Big(0), probes |-> 0]
          /\ op' = "/= loop"
          /\ UNCHANGED <<a, err>>
  /\ UNCHANGED <<b, x, y, steps, str, out, kc, kk, arg, ret, ma, mb, va, vb,
                 il, ref, dj, hs, call>>

\* The frame changes, nothing else does.
DivFrame == UNCHANGED <<a, b, op, x, y, err, steps, str, out, kc, kk, arg, ret,
                        ma, mb, va, vb, il, ref, dj, hs, call>>

\* current takes the next dividend limb; l and r are set for the search.
DivInsertLimb ==
  /\ op = "/= loop" /\ frame.pc = "insert"
  /\ frame' = [frame EXCEPT
                 !.current = normalize(MkBig(@.sign,
                                             <<frame.dividend.num[frame.i]>> \o @.num)),
                 !.l = Big(0), !.r = Big(base), !.probes = 0, !.pc = "search"]
  /\ DivFrame

\* One iteration of the binary search, or its exit when l > r.
DivProbe ==
  /\ op = "/= loop" /\ frame.pc = "search"
  /\ IF LessEq(frame.l, frame.r)
     THEN \E p \in {Probe(frame.l, frame.r, frame.divisor, frame.current)} :
            frame' = [frame EXCEPT !.l = p.l, !.r = p.r, !.probes = @ + 1]
     ELSE frame' = [frame EXCEPT !.pc = "emit"]
  /\ DivFrame

\* The quotient takes the limb found and current loses divisor * r.
DivEmit ==
  /\ op = "/= loop" /\ frame.pc = "emit"
  /\ \E st \in {DivStep(frame.quotient, frame.divisor, frame.current, frame.r)} :
       frame' = [frame EXCEPT !.quotient = st.quotient, !.current = st.current,
                              !.i = @ - 1,
                              !.pc = IF frame.i > 1 THEN "insert" ELSE "finish"]
  /\ DivFrame

\* The part of operator/= after the loop.
DivFinish ==
  /\ op = "/= loop" /\ frame.pc = "finish"
  /\ a' = normalize(MkBig(x.sign = y.sign, frame.quotient.num))
  /\ op' = "/= returned"
  /\ UNCHANGED <<b, x, y, err, steps, str, out, kc, kk, arg, ret, ma, mb, va, vb,
                 il, ref, dj, hs, call, frame>>

NextDiv == DivEnter \/ DivInsertLimb \/ DivProbe \/ DivEmit \/ DivFinish

SpecDiv == InitDiv /\ [][NextDiv]_vars

\* Least n with 2^n > v.
RECURSIVE BitLength(_)
BitLength(v) == IF v = 0 THEN 0 ELSE 1 + BitLength(v \div 2)

BaseCase_ThresholdTooLow(n) == n <= KARATSUBA_THRESHOLD - 1

\* if (n <= KARATSUBA_THRESHOLD): the call multiplies directly.
BaseCase(n) == n <= KARATSUBA_THRESHOLD

\* n of a call: std::max(x.num.size(), y.num.size()).
CallSize(c) == Max(Len(c.xv.num), Len(c.yv.num))

NewCall(xv, yv) ==
  [xv |-> xv, yv |-> yv, pc |-> "enter",
   z0 |-> BigIntDefault, z2 |-> BigIntDefault, result |-> BigIntDefault]

\* The operands of the three recursive calls of call c, in source order.
SubCall(c, which) ==
  LET m == CallSize(c) \div 2
      x1 == higher_half(c.xv, m)
      x0 == lower_half(c.xv, m)
      y1 == higher_half(c.yv, m)
      y0 == lower_half(c.yv, m)
  IN  IF which = "z0" THEN NewCall(x0, y0)
      ELSE IF which = "z2" THEN NewCall(x1, y1)
      ELSE NewCall(PlusAssign(x0, x1), PlusAssign(y0, y1))

\* The result of call c once karatsuba(x0 + x1, y0 + y1) has returned p.
Combine3(c, p) ==
  LET m == CallSize(c) \div 2
      z1 == MinusAssign(MinusAssign(p, c.z2), c.z0)
      sum == PlusAssign(PlusAssign(shift_left(c.z2, 2 * m), shift_left(z1, m)), c.z0)
  IN  normalize(MkBig(c.xv.sign = c.yv.sign, sum.num))

\* Limb vectors as the constructors leave them: at least one limb and no
\* leading zero limb.
KaraOperands ==
  {n \in LimbSeqs({0, base - 1}, MaxMulLimbs) : Len(n) >= 1 /\ StripZeros(n) = n}
    \cup LongLimbs

InitKara ==
  /\ \E n \in KaraOperands : x = MkBig(TRUE, n)
  /\ \E s \in BOOLEAN, n \in KaraOperands : y = MkBig(s, n)
  /\ a = x /\ b = y
  /\ op = "init" /\ err = "none" /\ steps = 0
  /\ str = <<>> /\ out = <<>> /\ kc = BigIntDefault /\ kk = BigIntDefault
  /\ arg = 0 /\ ret = 0 /\ ma = 0 /\ mb = 0
  /\ va = EmptyVector /\ vb = EmptyVector
  /\ il = NoObject /\ ref = NoObject /\ dj = NoObject /\ hs = NoObject
  /\ call = NoObject
  /\ frame = <<NewCall(x, y)>>

\* Only the stack changes.
KaraFrame == UNCHANGED <<a, b, op, x, y, err, steps, str, out, kc, kk, arg, ret,
                         ma, mb, va, vb, il, ref, dj, hs, call>>

RunningCall == frame[Len(frame)]

Running == op = "init" /\ Len(frame) >= 1

\* The running call is below the threshold: classic_multiply, no recursion.
KaraBase ==
  /\ Running /\ RunningCall.pc = "enter" /\ BaseCase(CallSize(RunningCall))
  /\ frame' = [frame EXCEPT ![Len(frame)].pc = "done",
                            ![Len(frame)].result = classic_multiply(RunningCall.xv, RunningCall.yv)]
  /\ KaraFrame

\* The running call splits its operands and calls karatsuba(x0, y0).
KaraSplit ==
  /\ Running /\ RunningCall.pc = "enter" /\ ~BaseCase(CallSize(RunningCall))
  /\ frame' = Append([frame EXCEPT ![Len(frame)].pc = "z0"], SubCall(RunningCall, "z0"))
  /\ KaraFrame

\* The running call returns to its caller, which makes its next call or,
\* after the third, assembles its result.
KaraReturn ==
  /\ Running /\ RunningCall.pc = "done" /\ Len(frame) >= 2
  /\ LET caller == frame[Len(frame) - 1]
         rest == SubSeq(frame, 1, Len(frame) - 2)
     IN  IF caller.pc = "z0"
         THEN frame' = rest \o <<[caller EXCEPT !.z0 = RunningCall.result, !.pc = "z2"],
                                 SubCall(caller, "z2")>>
         ELSE IF caller.pc = "z2"
         THEN frame' = rest \o <<[caller EXCEPT !.z2 = RunningCall.result, !.pc = "z1"],
                                 SubCall(caller, "z1")>>
         ELSE frame' = rest \o <<[caller EXCEPT !.result = Combine3(caller, RunningCall.result),
                                                !.pc = "done"]>>
  /\ KaraFrame

\* The outermost call returns the product.
KaraFinish ==
  /\ Running /\ RunningCall.pc = "done" /\ Len(frame) = 1
  /\ kk' = RunningCall.result /\ op' = "karatsuba returned" /\ frame' = <<>>
  /\ UNCHANGED <<a, b, x, y, err, steps, str, out, kc, arg, ret,
                 ma, mb, va, vb, il, ref, dj, hs, call>>

NextKara == KaraBase \/ KaraSplit \/ KaraReturn \/ KaraFinish

SpecKara == InitKara /\ [][NextKara]_vars

\* C27: karatsuba terminates: every recursive call, the one on the sums
\* x0 + x1 and y0 + y1 included, has operands whose larger limb count is
\* strictly below its caller's n, and the depth of the call stack stays
\* within twice the bit length of the outermost n.
C27_RecursionShrinks ==
  op = "init" =>
    /\ \A k \in 2..Len(frame) : CallSize(frame[k]) < CallSize(frame[k - 1])
    /\ Len(frame) <= 2 * BitLength(Max(1, Max(Len(x.num), Len(y.num))))

\* C27 witness: the call on the sums is running, and a sum has gained a carry
\* limb over both halves it was formed from.
C27_Witness ==
  /\ op = "init" /\ Len(frame) >= 2
  /\ frame[Len(frame) - 1].pc = "z1"
  /\ Len(RunningCall.xv.num) > (CallSize(frame[Len(frame) - 1]) + 1) \div 2

====
